---- MODULE Spec2Model ----
(***************************************************************************)
(* Verification model of the ffr device layer (handle pools, DDS texture   *)
(* loading, thread affinity of the entry points).                          *)
(*                                                                         *)
(* Every pool slot is modelled by its first machine word: Pool<T,N> keeps  *)
(* the free-list link of a free slot in the first int of the slot, which   *)
(* is the same storage as the first field of T (Buffer::handle,            *)
(* Texture::handle, Uniform::type, Program::handle).                       *)
(***************************************************************************)
EXTENDS Integers, Sequences, FiniteSets, TLC

(***************************************************************************)
(* Bounds of the model.                                                    *)
(***************************************************************************)
\* capacity of the pool under test (Buffer::MAX_COUNT etc. scaled down)
MAX_COUNT == 3

\* capacity of g_ffr.textures (Texture::MAX_COUNT scaled down)
TEXTURE_MAX_COUNT == 2

\* most native texture objects the driver hands out
MaxNativeTextures == 1

\* capacity of g_ffr.buffers and g_ffr.textures when several threads allocate
BUFFER_MAX_COUNT == 2

\* threads that allocate handles; thread 1 is the device thread
MtThreads == 2

\* capacity of g_ffr.uniforms
UNIFORM_MAX_COUNT == 1

\* capacity of g_ffr.programs
PROGRAM_MAX_COUNT == 1

\* length of Program::uniforms
PROGRAM_UNIFORMS == 1

\* native programs that exist at once
MaxNativePrograms == 1

\* most handles the callers of the pool under test hold at once
MaxHeld == MAX_COUNT + 1

VARIABLES
    pool,       \* Pool<T, MAX_COUNT> under test: [values, first_free]
    holders,    \* index -> number of handles with that index handed out by alloc and not given back
    ret,        \* value returned by the last alloc, -2 before the first one
    op,         \* name of the last operation
    consec,     \* allocs since create or since the last dealloc, saturating at MAX_COUNT + 1
                \* (0 once misused)
    expect,     \* indices given to dealloc and not handed out again, oldest first
                \* (empty once misused)
    misused,    \* TRUE once dealloc was called on an index that was not live
    g_thread,   \* g_ffr.thread: the thread recorded by init, 0 (static storage) before init
    caller,     \* thread that made the last call of an entry point
    entry,      \* the entry point it called
    gl_trace,   \* native calls that call made, in order
    assert_failed,  \* TRUE when the ASSERT of checkThread stopped that call
    textures,   \* g_ffr.textures: [values, first_free], values[i] is Texture::handle or the link
    tex_cubemap,    \* Texture::cubemap of every slot of g_ffr.textures
    tex_live,   \* texture handles returned by allocTextureHandle and not destroyed
    gl_textures,    \* names of the native texture objects that exist
    ld_call,    \* arguments of the last loadTexture call, NoCall if none is on record
    ld_before,  \* gl_textures and the slot of the handle before that call
    ld_ret,     \* what that call did: [ok, li, calls, reads, info]
    buffers,    \* g_ffr.buffers: [values, first_free], values[i] is Buffer::handle or the link
    handle_mutex,   \* g_ffr.handle_mutex: the thread that holds it, 0 when it is free
    mt_pc,      \* per thread: the statement it is about to execute
    mt_cat,     \* per thread: "buffer" or "texture", the category of the call it is in
    mt_id,      \* per thread: the local id of its alloc call or the handle it destroys
    mt_held,    \* per category and index: number of callers that hold the handle
    buf_live,   \* buffer handles handed out and not destroyed yet
    uniforms,   \* g_ffr.uniforms: [values, first_free]
    uni_slot,   \* per uniform slot: [type, count, data], data a block of the heap
    heap,       \* blocks g_ffr.allocator handed out: their byte sizes, by block number
    heap_data,  \* what each of those blocks holds
    uniforms_hash_map,  \* g_ffr.uniforms_hash_map: name hash -> uniform slot
    programs,   \* g_ffr.programs: [values, first_free], values[i] is Program::handle or the link
    prg_uniforms,   \* per program slot: the first uniforms_count entries of Program::uniforms
    prg_live,   \* program handles handed out and not destroyed yet
    gl_programs,    \* names of the native programs that exist
    dev_focus,  \* the tables the calls of this behaviour are about, "none" when idle
    dev_call,   \* the last call on the device layer: [fn, ...arguments]
    dev_ret,    \* the handle that call returned
    dev_trace,  \* the native calls that call made, in order
    fb_textures,    \* per texture slot: [handle, internal_format] of its native texture
    fb_color,   \* colour attachment point -> native texture attached to the framebuffer, 0 when empty
    fb_depth,   \* the native texture at the depth attachment point, 0 when empty
    fb_call,    \* the renderbuffers of the last update call
    fb_before,  \* the attachments before that call
    hierarchy,  \* the universe: the parent of every entity, INVALID_ENTITY for none
    m_rects,    \* GUISceneImpl::m_rects: entity -> [flags, image, text] of its GUIRect
    m_root,     \* GUISceneImpl::m_root: the entity of the GUIRect it points to, NullRect for nullptr
    root_deleted,   \* TRUE when the GUIRect m_root points to was deleted
    gui_focus,  \* the calls of this behaviour: "components" or "render", "none" when idle
    gui_call,   \* the last call on the scene
    gui_drawn   \* the entities whose rects the last render call drew, in order

poolVars == <<pool, holders, ret, op, consec, expect, misused>>

threadVars == <<g_thread, caller, entry, gl_trace, assert_failed>>

ddsVars == <<textures, tex_cubemap, tex_live, gl_textures, ld_call, ld_before, ld_ret>>

mtVars == <<buffers, handle_mutex, mt_pc, mt_cat, mt_id, mt_held>>

devVars == <<buf_live, uniforms, uni_slot, heap, heap_data, uniforms_hash_map, programs, prg_uniforms, prg_live, gl_programs, dev_focus, dev_call, dev_ret, dev_trace>>

fbVars == <<fb_textures, fb_color, fb_depth, fb_call, fb_before>>

guiVars == <<hierarchy, m_rects, m_root, root_deleted, gui_focus, gui_call, gui_drawn>>

vars == <<poolVars, threadVars, ddsVars, mtVars, devVars, fbVars, guiVars>>

(***************************************************************************)
(* Pool<T, MAX_COUNT>                                                      *)
(***************************************************************************)
Indices(n) == 0 .. (n - 1)

\* the words a caller stores in the first field of a live slot: 0, as the
\* alloc*Handle functions do, and the value of the list terminator; both
\* are inside the range of links, so a link read back from a slot is in bounds
SlotWords(n) == {-1, 0}

Pool_create_lastLinksToFirst(n) ==
    [values |-> [i \in Indices(n) |-> IF i = n - 1 THEN 0 ELSE i + 1],
     first_free |-> 0]

Pool_create(n) ==
    [values |-> [i \in Indices(n) |-> IF i = n - 1 THEN -1 ELSE i + 1],
     first_free |-> 0]

Pool_isFull(p) == p.first_free = -1

Pool_alloc_keepsHead(p) ==
    IF p.first_free = -1
    THEN [pool |-> p, id |-> -1]
    ELSE [pool |-> p, id |-> p.first_free]

Pool_alloc(p) ==
    IF p.first_free = -1
    THEN [pool |-> p, id |-> -1]
    ELSE [pool |-> [p EXCEPT !.first_free = p.values[p.first_free]],
          id   |-> p.first_free]

Pool_dealloc_behindHead(p, idx) ==
    IF p.first_free = -1
    THEN [p EXCEPT !.values[idx] = -1, !.first_free = idx]
    ELSE [p EXCEPT !.values[idx] = p.values[p.first_free],
                   !.values[p.first_free] = idx]

\* dealloc that makes the slot the whole list
Pool_dealloc_dropsList(p, idx) ==
    [p EXCEPT !.values[idx] = -1, !.first_free = idx]

Pool_dealloc(p, idx) ==
    [p EXCEPT !.values[idx] = p.first_free, !.first_free = idx]

Pool_write(p, idx, w) == [p EXCEPT !.values[idx] = w]

(***************************************************************************)
(* Callers of one pool.                                                    *)
(***************************************************************************)
RECURSIVE SumOver(_, _)
SumOver(f, S) ==
    IF S = {} THEN 0
    ELSE LET x == CHOOSE y \in S : TRUE IN f[x] + SumOver(f, S \ {x})

TotalHeld == SumOver(holders, DOMAIN holders)

Live == {i \in DOMAIN holders : holders[i] > 0}

\* state of the thread-affinity harness while another part of the layer is exercised
ThreadIdle ==
    /\ g_thread = 0
    /\ caller = 0
    /\ entry = "none"
    /\ gl_trace = <<>>
    /\ assert_failed = FALSE

\* value of ld_call, ld_before and ld_ret when no loadTexture call is on record
NoCall == [handle |-> -1]

\* state of the texture loader while another part of the layer is exercised
DdsIdle ==
    /\ textures = Pool_create(TEXTURE_MAX_COUNT)
    /\ tex_cubemap = [i \in Indices(TEXTURE_MAX_COUNT) |-> FALSE]
    /\ tex_live = {}
    /\ gl_textures = {}
    /\ ld_call = NoCall
    /\ ld_before = NoCall
    /\ ld_ret = NoCall

\* state of the handle allocation of several threads while another part of
\* the layer is exercised: no thread is inside a call
MtIdle ==
    /\ buffers = Pool_create(BUFFER_MAX_COUNT)
    /\ handle_mutex = 0
    /\ mt_pc = [t \in 1 .. MtThreads |-> "idle"]
    /\ mt_cat = [t \in 1 .. MtThreads |-> "buffer"]
    /\ mt_id = [t \in 1 .. MtThreads |-> -1]
    /\ mt_held = [buffer |-> [i \in Indices(BUFFER_MAX_COUNT) |-> 0],
                  texture |-> [i \in Indices(TEXTURE_MAX_COUNT) |-> 0]]

\* no call on the device layer is on record
NoDevCall == [fn |-> "none"]

\* a uniform slot before allocUniform wrote it
RawUniform == [type |-> "raw", count |-> 0, data |-> 0]

\* such a slot as useProgram reads it
RawUniformRead == [type |-> "raw", count |-> 0, value |-> 0]

\* the tables after preinit, no handle handed out
DevTablesFresh ==
    /\ buf_live = {}
    /\ uniforms = Pool_create(UNIFORM_MAX_COUNT)
    /\ uni_slot = [i \in Indices(UNIFORM_MAX_COUNT) |-> RawUniform]
    /\ heap = <<>>
    /\ heap_data = <<>>
    /\ uniforms_hash_map = <<>>
    /\ programs = Pool_create(PROGRAM_MAX_COUNT)
    /\ prg_uniforms = [i \in Indices(PROGRAM_MAX_COUNT) |-> <<>>]
    /\ prg_live = {}
    /\ gl_programs = {}
    /\ dev_call = NoDevCall
    /\ dev_ret = -1
    /\ dev_trace = <<>>

\* the device layer while another part is exercised
DevIdle ==
    /\ DevTablesFresh
    /\ dev_focus = "none"

\* no framebuffer exists
FbIdle ==
    /\ fb_textures = <<>>
    /\ fb_color = <<>>
    /\ fb_depth = 0
    /\ fb_call = <<>>
    /\ fb_before = <<>>

\* Entity of no entity
INVALID_ENTITY == -1

\* m_root = nullptr
NullRect == -1

\* the scene after construction, in a universe without entities
GuiIdle ==
    /\ hierarchy = <<>>
    /\ m_rects = <<>>
    /\ m_root = NullRect
    /\ root_deleted = FALSE
    /\ gui_focus = "none"
    /\ gui_call = "none"
    /\ gui_drawn = <<>>

\* what a call on the pool under test leaves alone
PoolFrame == UNCHANGED <<threadVars, ddsVars, mtVars, devVars, fbVars, guiVars>>

\* the pool under test after Pool::create, nothing handed out
PoolIdle ==
    /\ pool = Pool_create(MAX_COUNT)
    /\ holders = [i \in Indices(MAX_COUNT) |-> 0]
    /\ ret = -2
    /\ op = "create"
    /\ consec = 0
    /\ expect = <<>>
    /\ misused = FALSE

PoolInit == PoolIdle /\ ThreadIdle /\ DdsIdle /\ MtIdle /\ DevIdle /\ FbIdle /\ GuiIdle

PoolAlloc ==
    /\ TotalHeld < MaxHeld
    /\ LET r == Pool_alloc(pool) IN
        /\ pool' = r.pool
        /\ ret' = r.id
        /\ holders' = IF r.id = -1 THEN holders
                      ELSE [holders EXCEPT ![r.id] = @ + 1]
    /\ op' = "alloc"
    /\ consec' = IF misused THEN 0 ELSE IF consec > MAX_COUNT THEN consec ELSE consec + 1
    /\ expect' = IF expect = <<>> THEN expect ELSE SubSeq(expect, 1, Len(expect) - 1)
    /\ UNCHANGED misused
    /\ PoolFrame

\* dealloc of an index the caller holds
PoolDealloc ==
    \E idx \in Live :
        /\ pool' = Pool_dealloc(pool, idx)
        /\ holders' = [holders EXCEPT ![idx] = @ - 1]
        /\ op' = "dealloc"
        /\ consec' = 0
        /\ expect' = IF misused THEN <<>> ELSE Append(expect, idx)
        /\ UNCHANGED <<ret, misused>>
        /\ PoolFrame

\* dealloc of an index nobody holds: the pool does not check
PoolDeallocNotLive ==
    \E idx \in Indices(MAX_COUNT) \ Live :
        /\ pool' = Pool_dealloc(pool, idx)
        /\ misused' = TRUE
        /\ op' = "dealloc"
        /\ consec' = 0
        /\ expect' = <<>>
        /\ UNCHANGED <<holders, ret>>
        /\ PoolFrame

\* the holder of a live slot stores into it through operator[]
PoolWrite ==
    \E idx \in Live, w \in SlotWords(MAX_COUNT) :
        /\ pool.values[idx] # w
        /\ pool' = Pool_write(pool, idx, w)
        /\ op' = "write"
        /\ UNCHANGED <<holders, ret, consec, expect, misused>>
        /\ PoolFrame

PoolNext == PoolAlloc \/ PoolDealloc \/ PoolWrite

SpecPool == PoolInit /\ [][PoolNext]_vars

PoolUncheckedNext == PoolAlloc \/ PoolDealloc \/ PoolDeallocNotLive \/ PoolWrite

SpecPoolUnchecked == PoolInit /\ [][PoolUncheckedNext]_vars

(***************************************************************************)
(* C1: a pool of capacity MAX_COUNT never has more than MAX_COUNT handles  *)
(* out at once, and an alloc that follows MAX_COUNT allocs with no dealloc *)
(* in between returns -1.                                                  *)
(***************************************************************************)
C1_PoolCapacity ==
    /\ TotalHeld <= MAX_COUNT
    /\ (op = "alloc" /\ consec > MAX_COUNT) => ret = -1

C1_Witness ==
    /\ op = "alloc"
    /\ consec = MAX_COUNT + 1
    /\ ret = -1
    /\ TotalHeld = MAX_COUNT

(***************************************************************************)
(* C2: recycling is LIFO: an alloc returns the index most recently given   *)
(* to dealloc and not handed out since, so after dealloc of d1, ..., dk    *)
(* the next k allocs return dk, ..., d1.                                   *)
(***************************************************************************)
C2_LifoRecycling ==
    [][(op' = "alloc" /\ expect # <<>>) => ret' = expect[Len(expect)]]_vars

C2_Witness ==
    /\ op = "alloc"
    /\ Len(expect) = 1
    /\ ret # -1
    /\ ret # expect[1]
    /\ TotalHeld = MAX_COUNT - 1

(***************************************************************************)
(* C3 as stated: whatever index dealloc is called on, alloc never returns  *)
(* an index that is live.                                                  *)
(***************************************************************************)
C3_NoLiveIndexReturned == \A i \in DOMAIN holders : holders[i] <= 1

(***************************************************************************)
(* C3 amended: as long as dealloc was only called on live indices, alloc   *)
(* never returns an index that is live.                                    *)
(***************************************************************************)
C3_NoLiveIndexReturnedIfCallerChecks ==
    ~misused => \A i \in DOMAIN holders : holders[i] <= 1

C3_Witness ==
    /\ ~misused
    /\ op = "alloc"
    /\ ret # -1
    /\ consec = 1
    /\ TotalHeld = MAX_COUNT

(***************************************************************************)
(* Thread affinity of the entry points.                                    *)
(***************************************************************************)
\* threads of the process; thread ids are never 0
NumThreads == 3

Threads == 1 .. NumThreads

\* the statements every entry point executes up to and including its first
\* native call, in source order
EntrySteps ==
    [viewport            |-> <<"checkThread", "glViewport">>,
     blending            |-> <<"checkThread", "glDisable">>,
     scissor             |-> <<"checkThread", "glScissor">>,
     useProgram          |-> <<"glUseProgram">>,
     bindTexture         |-> <<"glActiveTexture">>,
     setVertexBuffer     |-> <<"glBindBuffer">>,
     setState            |-> <<"glDisable">>,
     setIndexBuffer      |-> <<"glBindBuffer">>,
     drawElements        |-> <<"checkThread", "glDrawElements">>,
     drawTriangles       |-> <<"checkThread", "glDrawElements">>,
     drawArrays          |-> <<"checkThread", "glDrawArrays">>,
     uniformBlockBinding |-> <<"checkThread", "glGetUniformBlockIndex">>,
     bindUniformBuffer   |-> <<"checkThread", "glBindBufferRange">>,
     update_Buffer       |-> <<"checkThread", "glBindBuffer">>,
     swapBuffers         |-> <<"checkThread", "SwapBuffers">>,
     createBuffer        |-> <<"checkThread", "glGenBuffers">>,
     destroy_Program     |-> <<"checkThread", "glDeleteProgram">>,
     loadTexture         |-> <<"checkThread", "glGenTextures">>,
     createTexture       |-> <<"checkThread", "glGenTextures">>,
     destroy_Texture     |-> <<"checkThread", "glDeleteTextures">>,
     destroy_Buffer      |-> <<"checkThread", "glDeleteBuffers">>,
     clear               |-> <<"checkThread", "glUseProgram">>,
     createProgram       |-> <<"checkThread", "glCreateProgram">>,
     getTextureImage     |-> <<"checkThread", "glGetTextureImage">>,
     popDebugGroup       |-> <<"checkThread", "glPopDebugGroup">>,
     pushDebugGroup      |-> <<"checkThread", "glPushDebugGroup">>,
     destroy_Framebuffer |-> <<"checkThread", "glDeleteFramebuffers">>,
     getAttribLocation   |-> <<"checkThread", "glGetAttribLocation">>,
     update_Framebuffer  |-> <<"checkThread", "glBindTexture">>,
     createQuery         |-> <<"glGenQueries">>,
     getQueryResult      |-> <<"glGetQueryObjectui64v">>,
     destroy_Query       |-> <<"glDeleteQueries">>,
     queryTimestamp      |-> <<"glQueryCounter">>,
     createFramebuffer   |-> <<"checkThread", "glGenFramebuffers">>,
     setFramebuffer      |-> <<"checkThread", "glBindFramebuffer">>]

EntryPoints == DOMAIN EntrySteps

\* ASSERT(g_ffr.thread == GetCurrentThreadId())
checkThread(t) == g_thread = t

\* the native calls among steps
NativeCalls(steps) == SelectSeq(steps, LAMBDA c : c # "checkThread")

\* steps executed by thread t: a failing assertion ends the call
RECURSIVE Executed(_, _)
Executed(t, steps) ==
    IF steps = <<>> THEN <<>>
    ELSE IF Head(steps) = "checkThread" /\ ~checkThread(t) THEN <<"ASSERT">>
    ELSE <<Head(steps)>> \o Executed(t, Tail(steps))

ThreadFrame == UNCHANGED <<poolVars, ddsVars, mtVars, devVars, fbVars, guiVars>>

ThreadInit == ThreadIdle /\ PoolIdle /\ DdsIdle /\ MtIdle /\ DevIdle /\ FbIdle /\ GuiIdle

\* init(window_handle) called by thread t
init(t) ==
    /\ g_thread' = t
    /\ caller' = t
    /\ entry' = "init"
    /\ gl_trace' = <<"glClipControl">>
    /\ assert_failed' = FALSE
    /\ ThreadFrame

\* thread t calls entry point e
CallEntry(t, e) ==
    LET done == Executed(t, EntrySteps[e]) IN
    /\ caller' = t
    /\ entry' = e
    /\ gl_trace' = NativeCalls(SelectSeq(done, LAMBDA c : c # "ASSERT"))
    /\ assert_failed' = (done # <<>> /\ done[Len(done)] = "ASSERT")
    /\ UNCHANGED g_thread
    /\ ThreadFrame

ThreadNext ==
    \/ \E t \in Threads : init(t)
    \/ \E t \in Threads, e \in EntryPoints : CallEntry(t, e)

SpecThread == ThreadInit /\ [][ThreadNext]_vars

(***************************************************************************)
(* C5: an entry point that issues native calls checks the calling thread   *)
(* before its first native call, so a call from a thread other than the    *)
(* one recorded by init makes no native call.                              *)
(***************************************************************************)
C5_NoNativeCallOffThread ==
    (g_thread # 0 /\ entry \in EntryPoints /\ caller # g_thread) => gl_trace = <<>>

(***************************************************************************)
(* DDS container: header, pixel-format predicates, load descriptors.       *)
(*                                                                         *)
(* A flag word (dwFlags, dwCaps2) is the set of its set bits; the test     *)
(* word & BIT is BIT \in word.  A mask word (dw*BitMask) is the pair of    *)
(* its high and low 16 bits, since 0xff000000 exceeds the integers of the  *)
(* checker.  Sizes stay far below 2^32 for the dimensions explored, so     *)
(* the uint arithmetic of the code does not wrap here.                     *)
(***************************************************************************)
DDS_MAGIC == 542327876
DDSD_CAPS == 1
DDSD_PITCH == 8
DDSD_PIXELFORMAT == 4096
DDSD_MIPMAPCOUNT == 131072
DDSD_LINEARSIZE == 524288
DDPF_ALPHAPIXELS == 1
DDPF_FOURCC == 4
DDPF_INDEXED == 32
DDPF_RGB == 64
DDSCAPS2_CUBEMAP == 512
D3DFMT_ATI1 == 826889281
D3DFMT_ATI2 == 843666497
D3DFMT_DXT1 == 827611204
D3DFMT_DXT2 == 844388420
D3DFMT_DXT3 == 861165636
D3DFMT_DXT5 == 894720068

\* word & bit
HasBit(word, bit) == bit \in word

\* the 32-bit word hi * 2^16 + lo
Mask(hi, lo) == <<hi, lo>>

sizeDXTC(w, h, format) ==
    LET is_dxt1 == format = "GL_COMPRESSED_RGBA_S3TC_DXT1_EXT"
                   \/ format = "GL_COMPRESSED_SRGB_ALPHA_S3TC_DXT1_EXT"
        is_ati == format = "GL_COMPRESSED_RED_RGTC1"
    IN ((w + 3) \div 4) * ((h + 3) \div 4) * (IF is_dxt1 \/ is_ati THEN 8 ELSE 16)

isDXT1(pf) == HasBit(pf.dwFlags, DDPF_FOURCC) /\ pf.dwFourCC = D3DFMT_DXT1

isATI1(pf) == HasBit(pf.dwFlags, DDPF_FOURCC) /\ pf.dwFourCC = D3DFMT_ATI1

isATI2(pf) == HasBit(pf.dwFlags, DDPF_FOURCC) /\ pf.dwFourCC = D3DFMT_ATI2

isDXT3(pf) == HasBit(pf.dwFlags, DDPF_FOURCC) /\ pf.dwFourCC = D3DFMT_DXT3

isDXT5(pf) == HasBit(pf.dwFlags, DDPF_FOURCC) /\ pf.dwFourCC = D3DFMT_DXT5

isBGRA8(pf) ==
    /\ HasBit(pf.dwFlags, DDPF_RGB)
    /\ HasBit(pf.dwFlags, DDPF_ALPHAPIXELS)
    /\ pf.dwRGBBitCount = 32
    /\ pf.dwRBitMask = Mask(255, 0)
    /\ pf.dwGBitMask = Mask(0, 65280)
    /\ pf.dwBBitMask = Mask(0, 255)
    /\ pf.dwAlphaBitMask = Mask(65280, 0)

isBGR8(pf) ==
    /\ HasBit(pf.dwFlags, DDPF_ALPHAPIXELS)
    /\ ~HasBit(pf.dwFlags, DDPF_ALPHAPIXELS)
    /\ pf.dwRGBBitCount = 24
    /\ pf.dwRBitMask = Mask(255, 0)
    /\ pf.dwGBitMask = Mask(0, 65280)
    /\ pf.dwBBitMask = Mask(0, 255)

isBGR5A1(pf) ==
    /\ HasBit(pf.dwFlags, DDPF_RGB)
    /\ HasBit(pf.dwFlags, DDPF_ALPHAPIXELS)
    /\ pf.dwRGBBitCount = 16
    /\ pf.dwRBitMask = Mask(0, 31744)
    /\ pf.dwGBitMask = Mask(0, 992)
    /\ pf.dwBBitMask = Mask(0, 31)
    /\ pf.dwAlphaBitMask = Mask(0, 32768)

isBGR565(pf) ==
    /\ HasBit(pf.dwFlags, DDPF_RGB)
    /\ ~HasBit(pf.dwFlags, DDPF_ALPHAPIXELS)
    /\ pf.dwRGBBitCount = 16
    /\ pf.dwRBitMask = Mask(0, 63488)
    /\ pf.dwGBitMask = Mask(0, 2016)
    /\ pf.dwBBitMask = Mask(0, 31)

isINDEX8(pf) == HasBit(pf.dwFlags, DDPF_INDEXED) /\ pf.dwRGBBitCount = 8

LoadInfo(name, compressed, swap, palette, blockBytes, internalFormat, internalSRGBFormat, externalFormat, type) ==
    [name |-> name, compressed |-> compressed, swap |-> swap, palette |-> palette,
     blockBytes |-> blockBytes, internalFormat |-> internalFormat,
     internalSRGBFormat |-> internalSRGBFormat,
     externalFormat |-> externalFormat, type |-> type]

loadInfoDXT1 ==
    LoadInfo("loadInfoDXT1", TRUE, FALSE, FALSE, 8, "GL_COMPRESSED_RGBA_S3TC_DXT1_EXT",
             "GL_COMPRESSED_SRGB_ALPHA_S3TC_DXT1_EXT", "GL_ZERO", "GL_ZERO")

loadInfoDXT3 ==
    LoadInfo("loadInfoDXT3", TRUE, FALSE, FALSE, 16, "GL_COMPRESSED_RGBA_S3TC_DXT3_EXT",
             "GL_COMPRESSED_SRGB_ALPHA_S3TC_DXT3_EXT", "GL_ZERO", "GL_ZERO")

loadInfoDXT5 ==
    LoadInfo("loadInfoDXT5", TRUE, FALSE, FALSE, 16, "GL_COMPRESSED_RGBA_S3TC_DXT5_EXT",
             "GL_COMPRESSED_SRGB_ALPHA_S3TC_DXT5_EXT", "GL_ZERO", "GL_ZERO")

loadInfoATI1 ==
    LoadInfo("loadInfoATI1", TRUE, FALSE, FALSE, 8, "GL_COMPRESSED_RED_RGTC1",
             "GL_ZERO", "GL_ZERO", "GL_ZERO")

loadInfoATI2 ==
    LoadInfo("loadInfoATI2", TRUE, FALSE, FALSE, 16, "GL_COMPRESSED_RG_RGTC2",
             "GL_ZERO", "GL_ZERO", "GL_ZERO")

loadInfoBGRA8 ==
    LoadInfo("loadInfoBGRA8", FALSE, FALSE, FALSE, 4, "GL_RGBA8",
             "GL_SRGB8_ALPHA8", "GL_BGRA", "GL_UNSIGNED_BYTE")

loadInfoBGR8 ==
    LoadInfo("loadInfoBGR8", FALSE, FALSE, FALSE, 3, "GL_RGB8",
             "GL_SRGB8", "GL_BGR", "GL_UNSIGNED_BYTE")

loadInfoBGR5A1 ==
    LoadInfo("loadInfoBGR5A1", FALSE, TRUE, FALSE, 2, "GL_RGB5_A1",
             "GL_ZERO", "GL_BGRA", "GL_UNSIGNED_SHORT_1_5_5_5_REV")

loadInfoBGR565 ==
    LoadInfo("loadInfoBGR565", FALSE, TRUE, FALSE, 2, "GL_RGB5",
             "GL_ZERO", "GL_RGB", "GL_UNSIGNED_SHORT_5_6_5")

loadInfoIndex8 ==
    LoadInfo("loadInfoIndex8", FALSE, FALSE, TRUE, 1, "GL_RGB8",
             "GL_SRGB8", "GL_BGRA", "GL_UNSIGNED_BYTE")

\* li stays unset: loadTexture returns before using it
NoLoadInfo == [name |-> "none"]

\* the if / else if chain of loadTexture
SelectLoadInfo(pf) ==
    IF isDXT1(pf) THEN loadInfoDXT1
    ELSE IF isDXT3(pf) THEN loadInfoDXT3
    ELSE IF isDXT5(pf) THEN loadInfoDXT5
    ELSE IF isATI1(pf) THEN loadInfoATI1
    ELSE IF isATI2(pf) THEN loadInfoATI2
    ELSE IF isBGRA8(pf) THEN loadInfoBGRA8
    ELSE IF isBGR8(pf) THEN loadInfoBGR8
    ELSE IF isBGR5A1(pf) THEN loadInfoBGR5A1
    ELSE IF isBGR565(pf) THEN loadInfoBGR565
    ELSE IF isINDEX8(pf) THEN loadInfoIndex8
    ELSE NoLoadInfo

HeaderValid_ignoresSize(hdr) ==
    ~ (\/ hdr.dwMagic # DDS_MAGIC
       \/ ~HasBit(hdr.dwFlags, DDSD_PIXELFORMAT)
       \/ ~HasBit(hdr.dwFlags, DDSD_CAPS))

\* negation of the first test of loadTexture
HeaderValid(hdr) ==
    ~ (\/ hdr.dwMagic # DDS_MAGIC
       \/ hdr.dwSize # 124
       \/ ~HasBit(hdr.dwFlags, DDSD_PIXELFORMAT)
       \/ ~HasBit(hdr.dwFlags, DDSD_CAPS))

MipMapCount_ignoresFlag(hdr) == hdr.dwMipMapCount

MipMapCount(hdr) ==
    IF HasBit(hdr.dwFlags, DDSD_MIPMAPCOUNT) THEN hdr.dwMipMapCount ELSE 1

IsCubemap(hdr) == HasBit(hdr.dwCaps2, DDSCAPS2_CUBEMAP)

maximum(a, b) == IF a > b THEN a ELSE b

(***************************************************************************)
(* loadTexture.  The device thread makes the call (checkThread passes).    *)
(* A result is [ok, li, calls, reads, info]: calls are the native calls in *)
(* order, reads the byte counts of the blob.read calls in order.           *)
(***************************************************************************)
GlCall(name) == [call |-> name]

GlBindTexture(target, texture) ==
    [call |-> "glBindTexture", target |-> target, texture |-> texture]

GlDeleteTextures(texture) == [call |-> "glDeleteTextures", texture |-> texture]

GlTexParameteri(target, pname) ==
    [call |-> "glTexParameteri", target |-> target, pname |-> pname]

\* glCompressedTexImage2D / glTexImage2D of one level; size is the byte
\* count read into data for it
GlUpload(name, target, face, level, internal_format, width, height, size) ==
    [call |-> name, target |-> target, face |-> face, level |-> level,
     internalformat |-> internal_format, width |-> width, height |-> height,
     size |-> size]

IsUpload(c) == c.call \in {"glCompressedTexImage2D", "glTexImage2D"}

\* for (ix = 0; ix < mipMapCount; ++ix) of the compressed branch
RECURSIVE CompressedMips(_, _, _, _, _, _, _, _, _)
CompressedMips(ix, mipMapCount, target, face, texture_target, internal_format, width, height, size) ==
    IF ix >= mipMapCount THEN [calls |-> <<>>, reads |-> <<>>]
    ELSE LET w == maximum(1, width \div 2)
             h == maximum(1, height \div 2)
             rest == CompressedMips(ix + 1, mipMapCount, target, face, texture_target,
                                    internal_format, w, h,
                                    sizeDXTC(w, h, internal_format))
         IN [calls |-> << GlUpload("glCompressedTexImage2D", target, face, ix,
                                   internal_format, width, height, size),
                          GlTexParameteri(texture_target, "GL_TEXTURE_MIN_FILTER"),
                          GlTexParameteri(texture_target, "GL_TEXTURE_MAG_FILTER") >>
                       \o rest.calls,
             reads |-> <<size>> \o rest.reads]

\* for (ix = 0; ix < mipMapCount; ++ix) of the palette branch and of the
\* uncompressed branch: the two loops differ only in the bytes handed over
RECURSIVE TexImageMips(_, _, _, _, _, _, _, _, _)
TexImageMips(ix, mipMapCount, target, face, internal_format, blockBytes, width, height, size) ==
    IF ix >= mipMapCount THEN [calls |-> <<>>, reads |-> <<>>]
    ELSE LET w == maximum(1, width \div 2)
             h == maximum(1, height \div 2)
             rest == TexImageMips(ix + 1, mipMapCount, target, face, internal_format,
                                  blockBytes, w, h, w * h * blockBytes)
         IN [calls |-> << GlUpload("glTexImage2D", target, face, ix, internal_format,
                                   width, height, size) >> \o rest.calls,
             reads |-> <<size>> \o rest.reads]

\* body of for (side ...) for one side
LoadSide(hdr, li, internal_format, texture, side) ==
    LET is_cubemap == IsCubemap(hdr)
        mipMapCount == MipMapCount(hdr)
        width == hdr.dwWidth
        height == hdr.dwHeight
        tex_img_target == IF is_cubemap THEN "GL_TEXTURE_CUBE_MAP_POSITIVE_X" ELSE "GL_TEXTURE_2D"
        face == IF is_cubemap THEN side ELSE 0
        texture_target == IF is_cubemap THEN "GL_TEXTURE_CUBE_MAP" ELSE "GL_TEXTURE_2D"
        bind == GlBindTexture(texture_target, texture)
        max_level == GlTexParameteri(texture_target, "GL_TEXTURE_MAX_LEVEL")
        rejected == [ok |-> FALSE, calls |-> <<bind, GlDeleteTextures(texture)>>, reads |-> <<>>]
    IN
    IF li.compressed THEN
        LET size == sizeDXTC(width, height, internal_format) IN
        IF size # hdr.dwPitchOrLinearSize \/ ~HasBit(hdr.dwFlags, DDSD_LINEARSIZE)
        THEN rejected
        ELSE LET m == CompressedMips(0, mipMapCount, tex_img_target, face, texture_target,
                                     internal_format, width, height, size)
             IN [ok |-> TRUE, calls |-> <<bind>> \o m.calls \o <<max_level>>, reads |-> m.reads]
    ELSE IF li.palette THEN
        IF ~HasBit(hdr.dwFlags, DDSD_PITCH) \/ hdr.pixelFormat.dwRGBBitCount # 8
        THEN rejected
        ELSE LET size == hdr.dwPitchOrLinearSize * height IN
             IF size # width * height * li.blockBytes
             THEN rejected
             ELSE LET m == TexImageMips(0, mipMapCount, tex_img_target, face,
                                        internal_format, li.blockBytes, width, height, size)
                  IN [ok |-> TRUE, calls |-> <<bind>> \o m.calls \o <<max_level>>,
                      reads |-> <<4 * 256>> \o m.reads]
    ELSE
        LET size == width * height * li.blockBytes
            m == TexImageMips(0, mipMapCount, tex_img_target, face, internal_format,
                              li.blockBytes, width, height, size)
            swap_on == IF li.swap THEN <<GlCall("glPixelStorei")>> ELSE <<>>
        IN [ok |-> TRUE,
            calls |-> <<bind>> \o swap_on \o m.calls \o <<GlCall("glPixelStorei"), max_level>>,
            reads |-> m.reads]

\* for (int side = 0; side < (is_cubemap ? 6 : 1); ++side), from side on
RECURSIVE LoadSides(_, _, _, _, _)
LoadSides(hdr, li, internal_format, texture, side) ==
    IF side >= (IF IsCubemap(hdr) THEN 6 ELSE 1)
    THEN [ok |-> TRUE, calls |-> <<>>, reads |-> <<>>]
    ELSE LET s == LoadSide(hdr, li, internal_format, texture, side) IN
         IF ~s.ok THEN s
         ELSE LET rest == LoadSides(hdr, li, internal_format, texture, side + 1)
              IN [ok |-> rest.ok, calls |-> s.calls \o rest.calls,
                  reads |-> s.reads \o rest.reads]

\* *info is not written
NoInfo == [written |-> FALSE]

TextureInfo_headerMips(hdr) ==
    [written |-> TRUE, width |-> hdr.dwWidth, height |-> hdr.dwHeight, depth |-> 1, layers |-> 1,
     mips |-> hdr.dwMipMapCount, is_cubemap |-> IsCubemap(hdr)]

TextureInfo(hdr) ==
    [written |-> TRUE, width |-> hdr.dwWidth, height |-> hdr.dwHeight, depth |-> 1, layers |-> 1,
     mips |-> MipMapCount(hdr), is_cubemap |-> IsCubemap(hdr)]

\* getTextureInfo(data) where data starts with hdr
getTextureInfo(hdr) ==
    [written |-> TRUE, width |-> hdr.dwWidth, height |-> hdr.dwHeight, depth |-> 1, layers |-> 1,
     mips |-> IF HasBit(hdr.dwFlags, DDSD_MIPMAPCOUNT) THEN hdr.dwMipMapCount ELSE 1,
     is_cubemap |-> HasBit(hdr.dwCaps2, DDSCAPS2_CUBEMAP)]

\* loadTexture(handle, input, input_size, flags, info) where input starts
\* with hdr, is_srgb is flags & SRGB, has_info is info != nullptr and
\* texture is the name glGenTextures returns if it is called
loadTexture(hdr, is_srgb, has_info, texture) ==
    LET li == SelectLoadInfo(hdr.pixelFormat) IN
    IF ~HeaderValid(hdr)
    THEN [ok |-> FALSE, li |-> NoLoadInfo, calls |-> <<>>, reads |-> <<128>>, info |-> NoInfo]
    ELSE IF li.name = "none"
    THEN [ok |-> FALSE, li |-> NoLoadInfo, calls |-> <<>>, reads |-> <<128>>, info |-> NoInfo]
    ELSE LET gen == [call |-> "glGenTextures", texture |-> texture] IN
         IF texture = 0
         THEN [ok |-> FALSE, li |-> li, calls |-> <<gen>>, reads |-> <<128>>, info |-> NoInfo]
         ELSE LET internal_format == IF is_srgb THEN li.internalSRGBFormat
                                     ELSE li.internalFormat
                  s == LoadSides(hdr, li, internal_format, texture, 0)
              IN [ok |-> s.ok, li |-> li, calls |-> <<gen>> \o s.calls,
                  reads |-> <<128>> \o s.reads,
                  info |-> IF s.ok /\ has_info THEN TextureInfo(hdr) ELSE NoInfo]

\* s_texture_formats, in table order
s_texture_formats ==
    << [format |-> "D24", gl_internal |-> "GL_DEPTH_COMPONENT24", gl_format |-> "GL_DEPTH_COMPONENT", type |-> "GL_UNSIGNED_INT"],
       [format |-> "D24S8", gl_internal |-> "GL_DEPTH24_STENCIL8", gl_format |-> "GL_DEPTH_STENCIL", type |-> "GL_UNSIGNED_INT_24_8"],
       [format |-> "D32", gl_internal |-> "GL_DEPTH_COMPONENT32", gl_format |-> "GL_DEPTH_COMPONENT", type |-> "GL_UNSIGNED_INT"],
       [format |-> "SRGB", gl_internal |-> "GL_SRGB8", gl_format |-> "GL_RGBA", type |-> "GL_UNSIGNED_BYTE"],
       [format |-> "SRGBA", gl_internal |-> "GL_SRGB8_ALPHA8", gl_format |-> "GL_RGBA", type |-> "GL_UNSIGNED_BYTE"],
       [format |-> "RGBA8", gl_internal |-> "GL_RGBA8", gl_format |-> "GL_RGBA", type |-> "GL_UNSIGNED_BYTE"],
       [format |-> "RGBA16F", gl_internal |-> "GL_RGBA16F", gl_format |-> "GL_RGBA", type |-> "GL_HALF_FLOAT"],
       [format |-> "R16F", gl_internal |-> "GL_R16F", gl_format |-> "GL_RED", type |-> "GL_HALF_FLOAT"],
       [format |-> "R16", gl_internal |-> "GL_R16", gl_format |-> "GL_RED", type |-> "GL_UNSIGNED_SHORT"],
       [format |-> "R32F", gl_internal |-> "GL_R32F", gl_format |-> "GL_RED", type |-> "GL_FLOAT"] >>

\* the first row of s_texture_formats with the format, 0 when there is none
FindTextureFormat(format) ==
    LET rows == {i \in DOMAIN s_texture_formats : s_texture_formats[i].format = format} IN
    IF rows = {} THEN 0 ELSE CHOOSE i \in rows : \A j \in rows : i <= j

createTexture_keepsUnknown(w, h, format, texture) ==
    LET i == FindTextureFormat(format) IN
    [ok |-> i # 0,
     calls |-> << [call |-> "glGenTextures", texture |-> texture],
                  GlBindTexture("GL_TEXTURE_2D", texture),
                  GlBindTexture("GL_TEXTURE_2D", 0) >>]

\* createTexture with srgb not requested (the assertion passes): texture is
\* the name glGenTextures hands out, 0 when it hands out none
createTexture(w, h, format, texture) ==
    LET i == FindTextureFormat(format)
        head == << [call |-> "glGenTextures", texture |-> texture],
                   GlBindTexture("GL_TEXTURE_2D", texture) >>
    IN
    IF i = 0
    THEN [ok |-> FALSE,
          calls |-> head \o << GlBindTexture("GL_TEXTURE_2D", 0), GlDeleteTextures(texture) >>]
    ELSE [ok |-> TRUE,
          calls |-> head \o
                    << GlUpload("glTexImage2D", "GL_TEXTURE_2D", 0, 0, s_texture_formats[i].gl_internal, w, h, 0),
                       GlCall("glGenerateMipmap"),
                       GlTexParameteri("GL_TEXTURE_2D", "GL_TEXTURE_WRAP_S"),
                       GlTexParameteri("GL_TEXTURE_2D", "GL_TEXTURE_WRAP_T"),
                       GlTexParameteri("GL_TEXTURE_2D", "GL_TEXTURE_MAG_FILTER"),
                       GlTexParameteri("GL_TEXTURE_2D", "GL_TEXTURE_MIN_FILTER"),
                       GlBindTexture("GL_TEXTURE_2D", 0) >>]

\* the native texture objects left by a sequence of native calls
NativeTexturesAfter(live, calls) ==
    LET Gens(t) == {i \in DOMAIN calls : calls[i].call = "glGenTextures" /\ calls[i].texture = t}
        Dels(t) == {i \in DOMAIN calls : calls[i].call = "glDeleteTextures" /\ calls[i].texture = t}
        made == {calls[i].texture : i \in {j \in DOMAIN calls : calls[j].call = "glGenTextures"}} \ {0}
    IN { t \in live \cup made :
           IF Gens(t) \cup Dels(t) = {}
           THEN t \in live
           ELSE \E i \in Gens(t) : \A j \in Dels(t) : j < i }

(***************************************************************************)
(* Containers handed to loadTexture.                                       *)
(***************************************************************************)
\* largest dwMipMapCount of a container
MaxMipCount == 3

PixelFormat(flags, fourcc, bits, r, g, b, a) ==
    [dwFlags |-> flags, dwFourCC |-> fourcc, dwRGBBitCount |-> bits,
     dwRBitMask |-> r, dwGBitMask |-> g, dwBBitMask |-> b, dwAlphaBitMask |-> a]

FourCCFormat(flags, fourcc) ==
    PixelFormat(flags, fourcc, 0, Mask(0, 0), Mask(0, 0), Mask(0, 0), Mask(0, 0))

PixelFormats ==
    { FourCCFormat({DDPF_FOURCC}, D3DFMT_DXT1),
      FourCCFormat({DDPF_FOURCC}, D3DFMT_DXT3),
      FourCCFormat({DDPF_FOURCC}, D3DFMT_DXT5),
      FourCCFormat({DDPF_FOURCC}, D3DFMT_ATI1),
      FourCCFormat({DDPF_FOURCC}, D3DFMT_ATI2),
      \* a FOURCC the loader does not know, and a known one without its flag
      FourCCFormat({DDPF_FOURCC}, D3DFMT_DXT2),
      FourCCFormat({}, D3DFMT_DXT1),
      \* 32-bit BGRA
      PixelFormat({DDPF_RGB, DDPF_ALPHAPIXELS}, 0, 32,
                  Mask(255, 0), Mask(0, 65280), Mask(0, 255), Mask(65280, 0)),
      \* 24-bit BGR, and the same with the alpha flag set
      PixelFormat({DDPF_RGB}, 0, 24,
                  Mask(255, 0), Mask(0, 65280), Mask(0, 255), Mask(0, 0)),
      PixelFormat({DDPF_RGB, DDPF_ALPHAPIXELS}, 0, 24,
                  Mask(255, 0), Mask(0, 65280), Mask(0, 255), Mask(0, 0)),
      \* 16-bit BGR5A1 and BGR565
      PixelFormat({DDPF_RGB, DDPF_ALPHAPIXELS}, 0, 16,
                  Mask(0, 31744), Mask(0, 992), Mask(0, 31), Mask(0, 32768)),
      PixelFormat({DDPF_RGB}, 0, 16,
                  Mask(0, 63488), Mask(0, 2016), Mask(0, 31), Mask(0, 0)),
      \* 8-bit palette, a palette flag with 4 bits, and a palette flag on a DXT1 FOURCC
      PixelFormat({DDPF_INDEXED}, 0, 8, Mask(0, 0), Mask(0, 0), Mask(0, 0), Mask(0, 0)),
      PixelFormat({DDPF_INDEXED}, 0, 4, Mask(0, 0), Mask(0, 0), Mask(0, 0), Mask(0, 0)),
      PixelFormat({DDPF_FOURCC, DDPF_INDEXED}, D3DFMT_DXT1, 8,
                  Mask(0, 0), Mask(0, 0), Mask(0, 0), Mask(0, 0)) }

\* <<dwWidth, dwHeight>> of the containers
HeaderDims == { <<4, 4>>, <<5, 3>>, <<0, 4>> }

\* dwPitchOrLinearSize: the linear size of 8-byte and of 16-byte blocks, and the pitch of an 8-bit row
PitchOrLinearSizes(w, h) ==
    { ((w + 3) \div 4) * ((h + 3) \div 4) * 8, ((w + 3) \div 4) * ((h + 3) \div 4) * 16, w }

Header(magic, size, flags, dims, linear, mips, pf, caps2) ==
    [dwMagic |-> magic, dwSize |-> size, dwFlags |-> flags, dwHeight |-> dims[2],
     dwWidth |-> dims[1], dwPitchOrLinearSize |-> linear, dwMipMapCount |-> mips,
     pixelFormat |-> pf, dwCaps2 |-> caps2]

\* containers whose magic, size and required flags are in order
SoundHeaders ==
    UNION { { Header(DDS_MAGIC, 124, {DDSD_CAPS, DDSD_PIXELFORMAT} \cup opt, dims, linear,
                     mips, pf, caps2) :
                opt \in SUBSET {DDSD_MIPMAPCOUNT, DDSD_LINEARSIZE, DDSD_PITCH},
                linear \in PitchOrLinearSizes(dims[1], dims[2]),
                mips \in {1, MaxMipCount},
                pf \in PixelFormats,
                caps2 \in {{}, {DDSCAPS2_CUBEMAP}} } : dims \in HeaderDims }

\* a 4 x 4 container of every pixel format with one of the four header faults
CorruptHeaders ==
    { Header(front[1], front[2], front[3] \cup {DDSD_LINEARSIZE, DDSD_PITCH}, <<4, 4>>,
             linear, 1, pf, {}) :
        front \in { <<0, 124, {DDSD_CAPS, DDSD_PIXELFORMAT}>>,
                    <<DDS_MAGIC, 128, {DDSD_CAPS, DDSD_PIXELFORMAT}>>,
                    <<DDS_MAGIC, 124, {DDSD_CAPS}>>,
                    <<DDS_MAGIC, 124, {DDSD_PIXELFORMAT}>> },
        linear \in PitchOrLinearSizes(4, 4),
        pf \in PixelFormats }

Headers == SoundHeaders \cup CorruptHeaders

(***************************************************************************)
(* Handle allocation and object creation on one thread: buffers,           *)
(* textures, uniforms and programs.                                        *)
(***************************************************************************)
\* (uint)-1, the value of a handle that names no slot
INVALID_BUFFER == -1
INVALID_TEXTURE == -1
INVALID_UNIFORM == -1
INVALID_PROGRAM == -1

MAX_SHADERS_PER_PROGRAM == 16

\* allocBufferHandle: the pool after the call and the handle returned
allocBufferHandle(p) ==
    IF Pool_isFull(p)
    THEN [pool |-> p, handle |-> INVALID_BUFFER]
    ELSE LET r == Pool_alloc(p) IN
         [pool |-> Pool_write(r.pool, r.id, 0), handle |-> r.id]

\* allocTextureHandle: the pool after the call and the handle returned
allocTextureHandle(p) ==
    IF Pool_isFull(p)
    THEN [pool |-> p, handle |-> INVALID_TEXTURE]
    ELSE LET r == Pool_alloc(p) IN
         [pool |-> Pool_write(r.pool, r.id, 0), handle |-> r.id]

UniformTypes == {"INT", "FLOAT", "VEC2", "VEC3", "VEC4", "MAT4", "MAT4X3", "MAT3X4"}

\* getSize: bytes of one element; an unknown type fails the assertion and yields 4
getSize(type) ==
    CASE type = "INT" -> 4
      [] type = "FLOAT" -> 4
      [] type = "VEC2" -> 4 * 2
      [] type = "VEC3" -> 4 * 3
      [] type = "VEC4" -> 4 * 4
      [] type = "MAT4" -> 4 * 16
      [] type = "MAT4X3" -> 4 * 12
      [] type = "MAT3X4" -> 4 * 12
      [] OTHER -> 4

\* names of uniforms; "plumless" and "buckeroo" have the same CRC-32
UniformNames == {"u_color", "u_time", "plumless", "buckeroo"}

\* crc32 of a name, as <<high 16 bits, low 16 bits>>
crc32(name) ==
    CASE name = "u_color" -> <<32400, 9508>>
      [] name = "u_time" -> <<7870, 8850>>
      [] name = "plumless" -> <<19931, 3109>>
      [] name = "buckeroo" -> <<19931, 3109>>

\* the uniform table: pool, slots, heap with its content, and name table
UniformStore == [pool |-> uniforms, slot |-> uni_slot, heap |-> heap, mem |-> heap_data, map |-> uniforms_hash_map]

allocUniform_insertsFirst(u, name, type, count) ==
    LET name_hash == crc32(name) IN
    IF name_hash \in DOMAIN u.map
    THEN [u |-> u, handle |-> u.map[name_hash]]
    ELSE IF Pool_isFull(u.pool)
    THEN [u |-> [u EXCEPT !.map = (name_hash :> 0) @@ u.map], handle |-> INVALID_UNIFORM]
    ELSE LET r == Pool_alloc(u.pool) IN
         [u |-> [pool |-> r.pool,
                 slot |-> [u.slot EXCEPT ![r.id] = [type |-> type, count |-> count, data |-> Len(u.heap) + 1]],
                 heap |-> Append(u.heap, getSize(type) * count),
                 mem |-> Append(u.mem, 0),
                 map |-> (name_hash :> r.id) @@ u.map],
          handle |-> r.id]

allocUniform_noLookup(u, name, type, count) ==
    LET name_hash == crc32(name) IN
    IF Pool_isFull(u.pool)
    THEN [u |-> u, handle |-> INVALID_UNIFORM]
    ELSE LET r == Pool_alloc(u.pool) IN
         [u |-> [pool |-> r.pool,
                 slot |-> [u.slot EXCEPT ![r.id] = [type |-> type, count |-> count, data |-> Len(u.heap) + 1]],
                 heap |-> Append(u.heap, getSize(type) * count),
                 mem |-> Append(u.mem, 0),
                 map |-> (name_hash :> r.id) @@ u.map],
          handle |-> r.id]

allocUniform_redeclares(u, name, type, count) ==
    LET name_hash == crc32(name) IN
    IF name_hash \in DOMAIN u.map
    THEN [u |-> [u EXCEPT !.slot[u.map[name_hash]].type = type, !.slot[u.map[name_hash]].count = count],
          handle |-> u.map[name_hash]]
    ELSE IF Pool_isFull(u.pool)
    THEN [u |-> u, handle |-> INVALID_UNIFORM]
    ELSE LET r == Pool_alloc(u.pool) IN
         [u |-> [pool |-> r.pool,
                 slot |-> [u.slot EXCEPT ![r.id] = [type |-> type, count |-> count, data |-> Len(u.heap) + 1]],
                 heap |-> Append(u.heap, getSize(type) * count),
                 mem |-> Append(u.mem, 0),
                 map |-> (name_hash :> r.id) @@ u.map],
          handle |-> r.id]

\* allocUniform: the uniform table after the call and the handle returned
allocUniform(u, name, type, count) ==
    LET name_hash == crc32(name) IN
    IF name_hash \in DOMAIN u.map
    THEN [u |-> u, handle |-> u.map[name_hash]]
    ELSE IF Pool_isFull(u.pool)
    THEN [u |-> u, handle |-> INVALID_UNIFORM]
    ELSE LET r == Pool_alloc(u.pool) IN
         [u |-> [pool |-> r.pool,
                 slot |-> [u.slot EXCEPT ![r.id] = [type |-> type, count |-> count, data |-> Len(u.heap) + 1]],
                 heap |-> Append(u.heap, getSize(type) * count),
                 mem |-> Append(u.mem, 0),
                 map |-> (name_hash :> r.id) @@ u.map],
          handle |-> r.id]

\* the switch of createProgram from the native type of an active uniform;
\* a type it does not list fails the assertion and becomes VEC4
GLToUniformType(type) ==
    CASE type \in {"GL_SAMPLER_CUBE", "GL_SAMPLER_2D", "GL_INT"} -> "INT"
      [] type = "GL_FLOAT" -> "FLOAT"
      [] type = "GL_FLOAT_VEC2" -> "VEC2"
      [] type = "GL_FLOAT_VEC3" -> "VEC3"
      [] type = "GL_FLOAT_VEC4" -> "VEC4"
      [] type = "GL_FLOAT_MAT4" -> "MAT4"
      [] type = "GL_FLOAT_MAT4x3" -> "MAT4X3"
      [] type = "GL_FLOAT_MAT3x4" -> "MAT3X4"
      [] OTHER -> "VEC4"

\* a reflection loop that records the uniforms without a location too
RECURSIVE ReflectUniforms_recordsAll(_, _, _, _)
ReflectUniforms_recordsAll(u, list, active, i) ==
    IF i > Len(active)
    THEN [u |-> u, uniforms |-> list]
    ELSE LET r == allocUniform(u, active[i].name, GLToUniformType(active[i].type), active[i].size) IN
         ReflectUniforms_recordsAll(r.u, Append(list, [loc |-> active[i].loc, uniform |-> r.handle]), active, i + 1)

\* the reflection loop of createProgram from active uniform i on: list is
\* Program::uniforms so far
RECURSIVE ReflectUniforms(_, _, _, _)
ReflectUniforms(u, list, active, i) ==
    IF i > Len(active)
    THEN [u |-> u, uniforms |-> list]
    ELSE IF active[i].loc >= 0
    THEN LET r == allocUniform(u, active[i].name, GLToUniformType(active[i].type), active[i].size) IN
         ReflectUniforms(r.u, Append(list, [loc |-> active[i].loc, uniform |-> r.handle]), active, i + 1)
    ELSE ReflectUniforms(u, list, active, i + 1)

\* a native call about one object
GlObjectCall(call, name) == [call |-> call, name |-> name]

\* the stage loop of createProgram from stage i on: whether every stage
\* compiled, and the native calls made; the shader of stage i is named i
RECURSIVE CompileStages_compilesAll(_, _, _)
CompileStages_compilesAll(num, compiled, i) ==
    IF i > num
    THEN [ok |-> \A k \in 1 .. num : compiled[k], calls |-> <<>>]
    ELSE LET rest == CompileStages_compilesAll(num, compiled, i + 1) IN
         [ok |-> rest.ok,
          calls |-> <<GlObjectCall("glCreateShader", i), GlObjectCall("glShaderSource", i),
                      GlObjectCall("glCompileShader", i),
                      GlObjectCall(IF compiled[i] THEN "glAttachShader" ELSE "glGetShaderInfoLog", i),
                      GlObjectCall("glDeleteShader", i)>> \o rest.calls]

RECURSIVE CompileStages(_, _, _)
CompileStages(num, compiled, i) ==
    IF i > num
    THEN [ok |-> TRUE, calls |-> <<>>]
    ELSE LET head == <<GlObjectCall("glCreateShader", i), GlObjectCall("glShaderSource", i),
                       GlObjectCall("glCompileShader", i)>>
         IN IF ~compiled[i]
            THEN [ok |-> FALSE,
                  calls |-> head \o <<GlObjectCall("glGetShaderInfoLog", i), GlObjectCall("glDeleteShader", i)>>]
            ELSE LET rest == CompileStages(num, compiled, i + 1) IN
                 [ok |-> rest.ok,
                  calls |-> head \o <<GlObjectCall("glAttachShader", i), GlObjectCall("glDeleteShader", i)>>
                            \o rest.calls]

\* createProgram that reflects every active uniform of the program
createProgram_reflectsAll(p, plist, u, gl, prg, num, compiled, linked, active) ==
    LET refused == [handle |-> INVALID_PROGRAM, programs |-> p, prg_uniforms |-> plist,
                    u |-> u, gl_programs |-> gl, calls |-> <<>>]
        stages == CompileStages(num, compiled, 1)
        built == <<GlObjectCall("glCreateProgram", prg)>> \o stages.calls
    IN
    IF Pool_isFull(p) THEN refused
    ELSE IF num > MAX_SHADERS_PER_PROGRAM THEN refused
    ELSE IF ~stages.ok
    THEN [refused EXCEPT !.gl_programs = gl \cup {prg}, !.calls = built]
    ELSE IF ~linked
    THEN [refused EXCEPT !.calls = built \o <<GlObjectCall("glLinkProgram", prg),
                                               GlObjectCall("glDeleteProgram", prg)>>]
    ELSE LET r == Pool_alloc(p)
             uniforms_count == Len(active)
             refl == ReflectUniforms(u, <<>>, SubSeq(active, 1, uniforms_count), 1)
         IN [handle |-> r.id,
             programs |-> Pool_write(r.pool, r.id, prg),
             prg_uniforms |-> [plist EXCEPT ![r.id] = refl.uniforms],
             u |-> refl.u,
             gl_programs |-> gl \cup {prg},
             calls |-> built \o <<GlObjectCall("glLinkProgram", prg)>>]

\* createProgram: compiled[i] is the compile status of stage i, linked the
\* link status, active the active uniforms of the linked program, prg the
\* name glCreateProgram hands out
createProgram(p, plist, u, gl, prg, num, compiled, linked, active) ==
    LET refused == [handle |-> INVALID_PROGRAM, programs |-> p, prg_uniforms |-> plist,
                    u |-> u, gl_programs |-> gl, calls |-> <<>>]
        stages == CompileStages(num, compiled, 1)
        built == <<GlObjectCall("glCreateProgram", prg)>> \o stages.calls
    IN
    IF Pool_isFull(p) THEN refused
    ELSE IF num > MAX_SHADERS_PER_PROGRAM THEN refused
    ELSE IF ~stages.ok
    THEN [refused EXCEPT !.gl_programs = gl \cup {prg}, !.calls = built]
    ELSE IF ~linked
    THEN [refused EXCEPT !.calls = built \o <<GlObjectCall("glLinkProgram", prg),
                                               GlObjectCall("glDeleteProgram", prg)>>]
    ELSE LET r == Pool_alloc(p)
             uniforms_count == IF Len(active) > PROGRAM_UNIFORMS THEN PROGRAM_UNIFORMS ELSE Len(active)
             refl == ReflectUniforms(u, <<>>, SubSeq(active, 1, uniforms_count), 1)
         IN [handle |-> r.id,
             programs |-> Pool_write(r.pool, r.id, prg),
             prg_uniforms |-> [plist EXCEPT ![r.id] = refl.uniforms],
             u |-> refl.u,
             gl_programs |-> gl \cup {prg},
             calls |-> built \o <<GlObjectCall("glLinkProgram", prg)>>]

\* getUniformLocation: the location of the first pair of the program that
\* names the uniform, -1 when no pair does
getUniformLocation(plist, program_handle, uniform) ==
    LET prg == plist[program_handle]
        hits == {i \in DOMAIN prg : prg[i].uniform = uniform}
    IN  IF hits = {} THEN -1
        ELSE prg[CHOOSE i \in hits : \A j \in hits : i <= j].loc

\* the functions that write a uniform's storage, with the type each asserts
UniformSetters ==
    [setUniform1i |-> "INT", setUniform2f |-> "VEC2", setUniform4f |-> "VEC4",
     setUniformMatrix4f |-> "MAT4", setUniformMatrix4x3f |-> "MAT4X3",
     setUniformMatrix3x4f |-> "MAT3X4"]

\* setUniform1i .. setUniformMatrix3x4f: the heap content after the call
setUniform(u, uniform, value) == [u.mem EXCEPT ![u.slot[uniform].data] = value]

\* the native call that uploads a uniform of the type, "none" when the
\* switch of useProgram has no case for it
UploadCall(type) ==
    CASE type = "MAT4" -> "glUniformMatrix4fv"
      [] type = "MAT4X3" -> "glUniformMatrix4x3fv"
      [] type = "MAT3X4" -> "glUniformMatrix3x4fv"
      [] type = "VEC4" -> "glUniform4fv"
      [] type = "VEC3" -> "glUniform3fv"
      [] type = "VEC2" -> "glUniform2fv"
      [] type = "FLOAT" -> "glUniform1fv"
      [] type = "INT" -> "glUniform1i"
      [] OTHER -> "none"

\* g_ffr.uniforms[id] as useProgram reads it: type, count and the content of
\* the storage; an id outside the pool reads stray, whatever lies there
UniformAt(u, id, stray) ==
    IF id \in DOMAIN u.slot
    THEN [type |-> u.slot[id].type, count |-> u.slot[id].count, value |-> u.mem[u.slot[id].data]]
    ELSE stray

\* the upload loop of useProgram from entry i of Program::uniforms on
RECURSIVE UploadUniforms(_, _, _, _)
UploadUniforms(list, u, stray, i) ==
    IF i > Len(list)
    THEN <<>>
    ELSE LET un == UniformAt(u, list[i].uniform, stray)
             call == UploadCall(un.type)
         IN (IF call = "none"
             THEN <<>>
             ELSE <<[call |-> call, loc |-> list[i].loc,
                     count |-> IF un.type = "INT" THEN 1 ELSE un.count, value |-> un.value]>>)
            \o UploadUniforms(list, u, stray, i + 1)

\* useProgram: the native calls made
useProgram(p, plist, u, handle, stray) ==
    IF handle = INVALID_PROGRAM
    THEN <<>>
    ELSE <<GlObjectCall("glUseProgram", p.values[handle])>> \o UploadUniforms(plist[handle], u, stray, 1)

(***************************************************************************)
(* Texture handles and the loader.                                         *)
(***************************************************************************)
DdsFrame == UNCHANGED <<poolVars, threadVars, mtVars, devVars, fbVars, guiVars>>

\* after preinit: the slots are raw memory but for the links, so
\* Texture::cubemap of a slot holds any value; the slots start all set or
\* all clear, which gives every slot both values
DdsInit ==
    /\ FbIdle
    /\ GuiIdle
    /\ PoolIdle
    /\ ThreadIdle
    /\ MtIdle
    /\ DevIdle
    /\ textures = Pool_create(TEXTURE_MAX_COUNT)
    /\ tex_cubemap \in { [i \in Indices(TEXTURE_MAX_COUNT) |-> b] : b \in BOOLEAN }
    /\ tex_live = {}
    /\ gl_textures = {}
    /\ ld_call = NoCall
    /\ ld_before = NoCall
    /\ ld_ret = NoCall

\* a call of allocTextureHandle; the lock is taken and released inside
AllocTextureHandle ==
    /\ LET r == allocTextureHandle(textures) IN
        /\ textures' = r.pool
        /\ tex_live' = IF r.handle = INVALID_TEXTURE THEN tex_live ELSE tex_live \cup {r.handle}
    /\ ld_call' = NoCall
    /\ ld_before' = NoCall
    /\ ld_ret' = NoCall
    /\ UNCHANGED <<tex_cubemap, gl_textures>>
    /\ DdsFrame

\* the name glGenTextures hands out when it succeeds
FreshTexture == CHOOSE n \in 1 .. MaxNativeTextures : n \notin gl_textures

LoadTextureCall(handle, hdr, is_srgb, has_info, texture) ==
    LET r == loadTexture(hdr, is_srgb, has_info, texture) IN
    /\ ld_call' = [handle |-> handle, fn |-> "loadTexture", hdr |-> hdr, is_srgb |-> is_srgb,
                    has_info |-> has_info]
    /\ ld_before' = [gl_textures |-> gl_textures, handle |-> textures.values[handle],
                     cubemap |-> tex_cubemap[handle]]
    /\ ld_ret' = r
    /\ gl_textures' = NativeTexturesAfter(gl_textures, r.calls)
    /\ textures' = IF r.ok THEN Pool_write(textures, handle, texture) ELSE textures
    /\ tex_cubemap' = IF r.ok THEN [tex_cubemap EXCEPT ![handle] = IsCubemap(hdr)]
                      ELSE tex_cubemap
    /\ UNCHANGED tex_live
    /\ DdsFrame

\* loadTexture on a live handle, once the result of the previous call was
\* taken; glGenTextures yields a new name
LoadTexture ==
    /\ ld_call = NoCall
    /\ Cardinality(gl_textures) < MaxNativeTextures
    /\ \E handle \in tex_live, hdr \in Headers, is_srgb \in BOOLEAN, has_info \in BOOLEAN :
        LoadTextureCall(handle, hdr, is_srgb, has_info, FreshTexture)

\* the same when glGenTextures leaves the name 0
LoadTextureNoName ==
    /\ ld_call = NoCall
    /\ Cardinality(gl_textures) < MaxNativeTextures
    /\ \E handle \in tex_live, hdr \in Headers, is_srgb \in BOOLEAN, has_info \in BOOLEAN :
        LoadTextureCall(handle, hdr, is_srgb, has_info, 0)

\* formats createTexture is called with: those of the table and one it lacks
TextureFormats == {s_texture_formats[i].format : i \in DOMAIN s_texture_formats} \cup {"unlisted"}

\* createTexture on a live handle, once the result of the previous call was
\* taken; glGenTextures yields a new name
CreateTexture ==
    /\ ld_call = NoCall
    /\ Cardinality(gl_textures) < MaxNativeTextures
    /\ \E handle \in tex_live, format \in TextureFormats :
        LET texture == FreshTexture
            r == createTexture(4, 4, format, texture)
        IN
        /\ ld_call' = [handle |-> handle, fn |-> "createTexture", format |-> format]
        /\ ld_before' = [gl_textures |-> gl_textures, handle |-> textures.values[handle],
                         cubemap |-> tex_cubemap[handle]]
        /\ ld_ret' = r
        /\ gl_textures' = NativeTexturesAfter(gl_textures, r.calls)
        /\ textures' = IF r.ok THEN Pool_write(textures, handle, texture) ELSE textures
        /\ tex_cubemap' = IF r.ok THEN [tex_cubemap EXCEPT ![handle] = FALSE] ELSE tex_cubemap
    /\ UNCHANGED tex_live
    /\ DdsFrame

DdsNext == AllocTextureHandle \/ LoadTexture \/ LoadTextureNoName \/ CreateTexture

SpecDDS == DdsInit /\ [][DdsNext]_vars

\* a loadTexture call is on record
Loaded == ld_call.handle # -1 /\ ld_call.fn = "loadTexture"

\* a loadTexture or createTexture call is on record
TextureCalled == ld_call.handle # -1

\* the name glGenTextures handed out in the call on record, 0 when it made
\* no such call or got no name
CreatedTexture ==
    LET gen == SelectSeq(ld_ret.calls, LAMBDA c : c.call = "glGenTextures") IN
    IF gen = <<>> THEN 0 ELSE gen[1].texture

\* the image-upload calls of the call on record, in order
Uploads == SelectSeq(ld_ret.calls, IsUpload)

(***************************************************************************)
(* C7: a container whose magic, header size, pixel-format flag or caps     *)
(* flag is wrong, or whose pixel format matches no predicate, makes        *)
(* loadTexture return false without any native call and without creating   *)
(* a native texture.                                                       *)
(***************************************************************************)
C7_MatchesNoPredicate(pf) ==
    ~ (\/ isDXT1(pf) \/ isDXT3(pf) \/ isDXT5(pf) \/ isATI1(pf) \/ isATI2(pf)
       \/ isBGRA8(pf) \/ isBGR8(pf) \/ isBGR5A1(pf) \/ isBGR565(pf) \/ isINDEX8(pf))

C7_Rejected ==
    \/ ld_call.hdr.dwMagic # DDS_MAGIC
    \/ ld_call.hdr.dwSize # 124
    \/ DDSD_PIXELFORMAT \notin ld_call.hdr.dwFlags
    \/ DDSD_CAPS \notin ld_call.hdr.dwFlags
    \/ C7_MatchesNoPredicate(ld_call.hdr.pixelFormat)

C7_FailFastNoNativeCall ==
    (Loaded /\ C7_Rejected) =>
        /\ ~ld_ret.ok
        /\ ld_ret.calls = <<>>
        /\ gl_textures = ld_before.gl_textures

C7_Witness ==
    /\ Loaded
    /\ ld_call.hdr.dwSize # 124
    /\ isDXT1(ld_call.hdr.pixelFormat)
    /\ ~ld_ret.ok
    /\ ld_ret.calls = <<>>

(***************************************************************************)
(* C8: a pixel format that fits the description of a format family (the    *)
(* FOURCC of a block-compressed variant; flags, bit count and masks of     *)
(* BGRA8, BGR8, BGR5A1, BGR565; the palette flag with 8 bits) is given the *)
(* load descriptor of the first family it fits, in the order DXT1, DXT3,   *)
(* DXT5, ATI1, ATI2, BGRA8, BGR8, BGR5A1, BGR565, INDEX8, and is not       *)
(* rejected as unknown.                                                    *)
(***************************************************************************)
C8_FourCC(pf, fourcc) == DDPF_FOURCC \in pf.dwFlags /\ pf.dwFourCC = fourcc

C8_Masks(pf, bits, r, g, b) ==
    /\ pf.dwRGBBitCount = bits
    /\ pf.dwRBitMask = r
    /\ pf.dwGBitMask = g
    /\ pf.dwBBitMask = b

C8_Family(pf) ==
    IF C8_FourCC(pf, D3DFMT_DXT1) THEN "loadInfoDXT1"
    ELSE IF C8_FourCC(pf, D3DFMT_DXT3) THEN "loadInfoDXT3"
    ELSE IF C8_FourCC(pf, D3DFMT_DXT5) THEN "loadInfoDXT5"
    ELSE IF C8_FourCC(pf, D3DFMT_ATI1) THEN "loadInfoATI1"
    ELSE IF C8_FourCC(pf, D3DFMT_ATI2) THEN "loadInfoATI2"
    ELSE IF /\ DDPF_RGB \in pf.dwFlags /\ DDPF_ALPHAPIXELS \in pf.dwFlags
            /\ C8_Masks(pf, 32, Mask(255, 0), Mask(0, 65280), Mask(0, 255))
            /\ pf.dwAlphaBitMask = Mask(65280, 0) THEN "loadInfoBGRA8"
    ELSE IF /\ DDPF_RGB \in pf.dwFlags /\ DDPF_ALPHAPIXELS \notin pf.dwFlags
            /\ C8_Masks(pf, 24, Mask(255, 0), Mask(0, 65280), Mask(0, 255)) THEN "loadInfoBGR8"
    ELSE IF /\ DDPF_RGB \in pf.dwFlags /\ DDPF_ALPHAPIXELS \in pf.dwFlags
            /\ C8_Masks(pf, 16, Mask(0, 31744), Mask(0, 992), Mask(0, 31))
            /\ pf.dwAlphaBitMask = Mask(0, 32768) THEN "loadInfoBGR5A1"
    ELSE IF /\ DDPF_RGB \in pf.dwFlags /\ DDPF_ALPHAPIXELS \notin pf.dwFlags
            /\ C8_Masks(pf, 16, Mask(0, 63488), Mask(0, 2016), Mask(0, 31)) THEN "loadInfoBGR565"
    ELSE IF DDPF_INDEXED \in pf.dwFlags /\ pf.dwRGBBitCount = 8 THEN "loadInfoIndex8"
    ELSE "none"

C8_EveryFamilyClassified ==
    (/\ Loaded
     /\ ld_call.hdr.dwMagic = DDS_MAGIC
     /\ ld_call.hdr.dwSize = 124
     /\ {DDSD_PIXELFORMAT, DDSD_CAPS} \subseteq ld_call.hdr.dwFlags
     /\ C8_Family(ld_call.hdr.pixelFormat) # "none")
        => ld_ret.li.name = C8_Family(ld_call.hdr.pixelFormat)

(***************************************************************************)
(* C9: every level of a block-compressed container is read and uploaded    *)
(* with ceil(w/4) * ceil(h/4) * blockBytes bytes, blockBytes being the     *)
(* block size of the classified format, whether sRGB is requested or not.  *)
(***************************************************************************)
C9_CompressedLevelSize ==
    (Loaded /\ ld_ret.li.name # "none" /\ ld_ret.li.compressed) =>
        \A i \in 1 .. Len(Uploads) :
            Uploads[i].size = ((Uploads[i].width + 3) \div 4)
                              * ((Uploads[i].height + 3) \div 4)
                              * ld_ret.li.blockBytes

(***************************************************************************)
(* C10 as stated: a successful loadTexture makes F * M upload calls (M the *)
(* header mip count if the mip-count flag is set, else 1; F = 6 for a      *)
(* cubemap, else 1), face by face, levels 0 .. M-1 in order, level k of    *)
(* size max(1, width >> k) by max(1, height >> k).                         *)
(***************************************************************************)
C10_Faces == IF DDSCAPS2_CUBEMAP \in ld_call.hdr.dwCaps2 THEN 6 ELSE 1

C10_Mips ==
    IF DDSD_MIPMAPCOUNT \in ld_call.hdr.dwFlags THEN ld_call.hdr.dwMipMapCount ELSE 1

\* max(1, d >> k)
C10_ShiftedDim(d, k) == IF d \div (2 ^ k) > 1 THEN d \div (2 ^ k) ELSE 1

\* the uploads are F runs of M levels whose sizes are given by Dim
C10_UploadsAre(Dim(_, _)) ==
    /\ Len(Uploads) = C10_Faces * C10_Mips
    /\ \A f \in 0 .. (C10_Faces - 1), k \in 0 .. (C10_Mips - 1) :
        LET u == Uploads[f * C10_Mips + k + 1] IN
        /\ u.face = f
        /\ u.level = k
        /\ u.width = Dim(ld_call.hdr.dwWidth, k)
        /\ u.height = Dim(ld_call.hdr.dwHeight, k)

C10_UploadsPerFaceAndLevel ==
    (Loaded /\ ld_ret.ok) => C10_UploadsAre(C10_ShiftedDim)

(***************************************************************************)
(* C10 amended: the same, but level 0 has the width and height of the      *)
(* header as they are (also when one is 0), and only the levels k >= 1     *)
(* have size max(1, width >> k) by max(1, height >> k).                    *)
(***************************************************************************)
C10_LevelDim(d, k) == IF k = 0 THEN d ELSE C10_ShiftedDim(d, k)

C10_UploadsPerFaceAndLevelFromHeaderSize ==
    (Loaded /\ ld_ret.ok) => C10_UploadsAre(C10_LevelDim)

C10_Witness ==
    /\ Loaded
    /\ ld_ret.ok
    /\ C10_Faces = 6
    /\ C10_Mips = MaxMipCount
    /\ ld_call.hdr.dwWidth = 5
    /\ Len(Uploads) = 6 * MaxMipCount
    /\ Uploads[Len(Uploads)].width = 1

\* bytes of the top level of a block-compressed container by the block rule
\* of its format: ceil(w/4) * ceil(h/4) * blockBytes
C11_TopLevelSize ==
    ((ld_call.hdr.dwWidth + 3) \div 4) * ((ld_call.hdr.dwHeight + 3) \div 4) * ld_ret.li.blockBytes

(***************************************************************************)
(* C11: a block-compressed container whose declared linear size differs    *)
(* from the size of its top level by width, height and format, or that     *)
(* lacks the linear-size flag, makes loadTexture return false without any  *)
(* image-upload call.                                                      *)
(***************************************************************************)
C11_SizeMismatchRejected ==
    (/\ Loaded
     /\ ld_ret.li.name # "none"
     /\ ld_ret.li.compressed
     /\ \/ ld_call.hdr.dwPitchOrLinearSize # C11_TopLevelSize
        \/ ~HasBit(ld_call.hdr.dwFlags, DDSD_LINEARSIZE))
        => (~ld_ret.ok /\ Uploads = <<>>)

(***************************************************************************)
(* C12: a loadTexture or createTexture call that returns false after       *)
(* glGenTextures handed out a name has deleted that name exactly once, and *)
(* the native textures that exist are those that existed before the call.  *)
(***************************************************************************)
C12_FailedCallDeletesTexture ==
    (TextureCalled /\ ~ld_ret.ok) =>
        /\ gl_textures = ld_before.gl_textures
        /\ CreatedTexture # 0 =>
              Len(SelectSeq(ld_ret.calls,
                            LAMBDA c : c.call = "glDeleteTextures" /\ c.texture = CreatedTexture)) = 1

\* a createTexture call with a format the table lacks, after glGenTextures
\* handed out a name
C12_Witness ==
    /\ TextureCalled
    /\ ld_call.fn = "createTexture"
    /\ ~ld_ret.ok
    /\ CreatedTexture # 0
    /\ gl_textures = ld_before.gl_textures

\* the mip count a header declares: dwMipMapCount under DDSD_MIPMAPCOUNT, else 1
C13_HeaderMips ==
    IF DDSD_MIPMAPCOUNT \in ld_call.hdr.dwFlags THEN ld_call.hdr.dwMipMapCount ELSE 1

\* C13: after loadTexture returns true the slot of the handle holds the native
\* texture the call created, its cubemap flag is the header's cubemap bit and
\* the reported TextureInfo (also that of getTextureInfo) has the header's mip
\* count under the mip-count flag and 1 without it; after it returns false
\* the slot holds what it held before the call
C13_LoadTextureSlot ==
    Loaded =>
        IF ld_ret.ok
        THEN /\ CreatedTexture # 0
             /\ CreatedTexture \notin ld_before.gl_textures
             /\ textures.values[ld_call.handle] = CreatedTexture
             /\ tex_cubemap[ld_call.handle] = (DDSCAPS2_CUBEMAP \in ld_call.hdr.dwCaps2)
             /\ ld_call.has_info =>
                    /\ ld_ret.info.written
                    /\ ld_ret.info.mips = C13_HeaderMips
                    /\ ld_ret.info.is_cubemap = (DDSCAPS2_CUBEMAP \in ld_call.hdr.dwCaps2)
             /\ getTextureInfo(ld_call.hdr).mips = C13_HeaderMips
        ELSE /\ textures.values[ld_call.handle] = ld_before.handle
             /\ tex_cubemap[ld_call.handle] = ld_before.cubemap

\* a successful load of a DXT1 container whose header carries a mip count
\* other than 1 without the mip-count flag, with the info reported
C13_Witness ==
    /\ Loaded
    /\ ld_ret.ok
    /\ ld_call.has_info
    /\ ld_ret.li.name = "loadInfoDXT1"
    /\ DDSD_MIPMAPCOUNT \notin ld_call.hdr.dwFlags
    /\ ld_call.hdr.dwMipMapCount # 1
    /\ ld_ret.info.mips = 1
    /\ ~ld_ret.info.is_cubemap
    /\ textures.values[ld_call.handle] = CreatedTexture

(***************************************************************************)
(* Handle allocation by several threads.  allocBufferHandle and            *)
(* allocTextureHandle run on any thread, destroy(BufferHandle) and         *)
(* destroy(TextureHandle) on the device thread.  Every statement that      *)
(* touches g_ffr is a step of its own, so the steps of different threads   *)
(* interleave wherever the mutex lets them.                                *)
(***************************************************************************)
MtThreadIds == 1 .. MtThreads

\* the thread init recorded in g_ffr.thread
MtDeviceThread == 1

MtCategories == {"buffer", "texture"}

\* g_ffr.buffers or g_ffr.textures
MtPool(c) == IF c = "buffer" THEN buffers ELSE textures

\* assignment to g_ffr.buffers or g_ffr.textures
MtSetPool(c, p) ==
    IF c = "buffer"
    THEN buffers' = p /\ UNCHANGED textures
    ELSE textures' = p /\ UNCHANGED buffers

\* handles the callers hold
MtHeldTotal ==
    SumOver(mt_held["buffer"], DOMAIN mt_held["buffer"])
    + SumOver(mt_held["texture"], DOMAIN mt_held["texture"])

\* most handles the callers hold at once, over both categories
MaxMtHeld == BUFFER_MAX_COUNT + TEXTURE_MAX_COUNT

\* SpinMutex::lock returns once no thread holds the mutex
SpinMutex_isFree(m) == m = 0

allocHandle_entry_unlocked == "isFull"

\* first statement of allocBufferHandle and allocTextureHandle: the SpinLock
allocHandle_entry == "lock"

\* the name the threads pass to allocUniform
MtUniformName == "u_color"

\* first statement of createProgram after checkThread: the test of the pool
createProgram_entry == "p_isFull"

MtFrame == UNCHANGED <<poolVars, threadVars, tex_cubemap, tex_live, gl_textures, ld_call, ld_before, ld_ret, buf_live, prg_uniforms, prg_live, gl_programs, dev_focus, dev_call, dev_ret, dev_trace, fbVars, guiVars>>

\* the steps of the buffer and texture calls leave uniforms and programs alone
MtHandleFrame ==
    /\ UNCHANGED <<uniforms, uni_slot, heap, heap_data, uniforms_hash_map, programs>>
    /\ MtFrame

\* the calls the threads make in a behaviour: those on buffers and textures,
\* or those on uniforms and programs
MtInit ==
    /\ FbIdle
    /\ GuiIdle
    /\ PoolIdle
    /\ ThreadIdle
    /\ DdsIdle
    /\ MtIdle
    /\ DevTablesFresh
    /\ dev_focus \in {"handles", "programs"}

\* a thread enters allocBufferHandle or allocTextureHandle
MtCallAlloc(t, c) ==
    /\ dev_focus \in {"handles", c}
    /\ mt_pc[t] = "idle"
    /\ MtHeldTotal < MaxMtHeld
    /\ mt_pc' = [mt_pc EXCEPT ![t] = allocHandle_entry]
    /\ mt_cat' = [mt_cat EXCEPT ![t] = c]
    /\ mt_id' = [mt_id EXCEPT ![t] = -1]
    /\ UNCHANGED <<buffers, textures, handle_mutex, mt_held>>
    /\ MtHandleFrame

\* SpinLock constructor: mutex.lock()
MtLock(t) ==
    /\ mt_pc[t] \in {"lock", "d_lock"}
    /\ SpinMutex_isFree(handle_mutex)
    /\ handle_mutex' = t
    /\ mt_pc' = [mt_pc EXCEPT ![t] = IF mt_pc[t] = "lock" THEN "isFull" ELSE "dealloc_link"]
    /\ UNCHANGED <<buffers, textures, mt_cat, mt_id, mt_held>>
    /\ MtHandleFrame

\* if (pool.isFull()) return INVALID
MtIsFull(t) ==
    /\ mt_pc[t] = "isFull"
    /\ mt_pc' = [mt_pc EXCEPT ![t] = IF Pool_isFull(MtPool(mt_cat[t])) THEN "unlock" ELSE "alloc_read"]
    /\ UNCHANGED <<buffers, textures, handle_mutex, mt_cat, mt_id, mt_held>>
    /\ MtHandleFrame

\* Pool::alloc: if (first_free == -1) return -1; const int id = first_free;
MtAllocRead(t) ==
    /\ mt_pc[t] = "alloc_read"
    /\ mt_id' = [mt_id EXCEPT ![t] = MtPool(mt_cat[t]).first_free]
    /\ mt_pc' = [mt_pc EXCEPT ![t] = IF MtPool(mt_cat[t]).first_free = -1 THEN "init" ELSE "alloc_pop"]
    /\ UNCHANGED <<buffers, textures, handle_mutex, mt_cat, mt_held>>
    /\ MtHandleFrame

\* Pool::alloc: first_free = *((int*)&values[id]);
MtAllocPop(t) ==
    /\ mt_pc[t] = "alloc_pop"
    /\ MtSetPool(mt_cat[t], [MtPool(mt_cat[t]) EXCEPT !.first_free = MtPool(mt_cat[t]).values[mt_id[t]]])
    /\ mt_pc' = [mt_pc EXCEPT ![t] = "init"]
    /\ UNCHANGED <<handle_mutex, mt_cat, mt_id, mt_held>>
    /\ MtHandleFrame

\* t.handle = 0; with id = -1 the write is outside the slot array and may
\* land on any word, of the pool or not
MtInitSlot(t) ==
    /\ mt_pc[t] = "init"
    /\ \E i \in (IF mt_id[t] = -1 THEN DOMAIN MtPool(mt_cat[t]).values \cup {-1} ELSE {mt_id[t]}) :
          IF i = -1
          THEN UNCHANGED <<buffers, textures>>
          ELSE MtSetPool(mt_cat[t], Pool_write(MtPool(mt_cat[t]), i, 0))
    /\ mt_pc' = [mt_pc EXCEPT ![t] = "unlock"]
    /\ UNCHANGED <<handle_mutex, mt_cat, mt_id, mt_held>>
    /\ MtHandleFrame

\* a return on a full pool that leaves the mutex locked
MtUnlockReturn_fullKeepsLock(t) ==
    /\ mt_pc[t] = "unlock"
    /\ handle_mutex' = IF mt_id[t] = -1 THEN handle_mutex ELSE 0
    /\ mt_held' = IF mt_id[t] = -1
                  THEN mt_held
                  ELSE [mt_held EXCEPT ![mt_cat[t]][mt_id[t]] = @ + 1]
    /\ mt_pc' = [mt_pc EXCEPT ![t] = "idle"]
    /\ UNCHANGED <<buffers, textures, mt_cat, mt_id>>
    /\ MtHandleFrame

\* SpinLock destructor and return { (uint)id }, or INVALID when the pool was full
MtUnlockReturn(t) ==
    /\ mt_pc[t] = "unlock"
    /\ handle_mutex' = 0
    /\ mt_held' = IF mt_id[t] = -1
                  THEN mt_held
                  ELSE [mt_held EXCEPT ![mt_cat[t]][mt_id[t]] = @ + 1]
    /\ mt_pc' = [mt_pc EXCEPT ![t] = "idle"]
    /\ UNCHANGED <<buffers, textures, mt_cat, mt_id>>
    /\ MtHandleFrame

\* the device thread enters destroy(BufferHandle) or destroy(TextureHandle)
\* with a handle a caller holds; checkThread passes
MtCallDestroy(t, c, h) ==
    /\ dev_focus \in {"handles", c}
    /\ t = MtDeviceThread
    /\ mt_pc[t] = "idle"
    /\ mt_held[c][h] > 0
    /\ mt_held' = [mt_held EXCEPT ![c][h] = @ - 1]
    /\ mt_cat' = [mt_cat EXCEPT ![t] = c]
    /\ mt_id' = [mt_id EXCEPT ![t] = h]
    /\ mt_pc' = [mt_pc EXCEPT ![t] = "glDelete"]
    /\ UNCHANGED <<buffers, textures, handle_mutex>>
    /\ MtHandleFrame

\* const GLuint handle = t.handle; glDeleteBuffers(1, &handle), before the lock
MtGlDelete(t) ==
    /\ mt_pc[t] = "glDelete"
    /\ mt_pc' = [mt_pc EXCEPT ![t] = "d_lock"]
    /\ UNCHANGED <<buffers, textures, handle_mutex, mt_cat, mt_id, mt_held>>
    /\ MtHandleFrame

\* Pool::dealloc: *((int*)&values[idx]) = first_free;
MtDeallocLink(t) ==
    /\ mt_pc[t] = "dealloc_link"
    /\ MtSetPool(mt_cat[t], Pool_write(MtPool(mt_cat[t]), mt_id[t], MtPool(mt_cat[t]).first_free))
    /\ mt_pc' = [mt_pc EXCEPT ![t] = "dealloc_head"]
    /\ UNCHANGED <<handle_mutex, mt_cat, mt_id, mt_held>>
    /\ MtHandleFrame

\* Pool::dealloc: first_free = idx;
MtDeallocHead(t) ==
    /\ mt_pc[t] = "dealloc_head"
    /\ MtSetPool(mt_cat[t], [MtPool(mt_cat[t]) EXCEPT !.first_free = mt_id[t]])
    /\ mt_pc' = [mt_pc EXCEPT ![t] = "d_unlock"]
    /\ UNCHANGED <<handle_mutex, mt_cat, mt_id, mt_held>>
    /\ MtHandleFrame

\* SpinLock destructor at the end of destroy
MtUnlockDestroy(t) ==
    /\ mt_pc[t] = "d_unlock"
    /\ handle_mutex' = 0
    /\ mt_pc' = [mt_pc EXCEPT ![t] = "idle"]
    /\ UNCHANGED <<buffers, textures, mt_cat, mt_id, mt_held>>
    /\ MtHandleFrame

\* a thread enters allocUniform; crc32(name) is computed before the lock
MtCallAllocUniform(t) ==
    /\ dev_focus = "programs"
    /\ mt_pc[t] = "idle"
    /\ mt_pc' = [mt_pc EXCEPT ![t] = "u_lock"]
    /\ mt_cat' = [mt_cat EXCEPT ![t] = "uniform"]
    /\ mt_id' = [mt_id EXCEPT ![t] = -1]
    /\ UNCHANGED <<buffers, textures, handle_mutex, mt_held>>
    /\ MtHandleFrame

\* allocUniform: MT::SpinLock lock(g_ffr.handle_mutex)
MtLockUniform(t) ==
    /\ mt_pc[t] = "u_lock"
    /\ SpinMutex_isFree(handle_mutex)
    /\ handle_mutex' = t
    /\ mt_pc' = [mt_pc EXCEPT ![t] = "u_table"]
    /\ UNCHANGED <<buffers, textures, mt_cat, mt_id, mt_held>>
    /\ MtHandleFrame

\* allocUniform from the lookup in the name table to the insert into it
MtUniformTable(t) ==
    /\ mt_pc[t] = "u_table"
    /\ LET r == allocUniform(UniformStore, MtUniformName, "VEC4", 1) IN
        /\ uniforms' = r.u.pool
        /\ uni_slot' = r.u.slot
        /\ heap' = r.u.heap
        /\ heap_data' = r.u.mem
        /\ uniforms_hash_map' = r.u.map
        /\ mt_id' = [mt_id EXCEPT ![t] = r.handle]
    /\ mt_pc' = [mt_pc EXCEPT ![t] = "u_unlock"]
    /\ UNCHANGED <<buffers, textures, programs, handle_mutex, mt_cat, mt_held>>
    /\ MtFrame

\* SpinLock destructor at each return of allocUniform; inside createProgram
\* the reflection loop goes on
MtUnlockUniform(t) ==
    /\ mt_pc[t] = "u_unlock"
    /\ handle_mutex' = 0
    /\ mt_pc' = [mt_pc EXCEPT ![t] = IF mt_cat[t] = "program" THEN "p_reflect" ELSE "idle"]
    /\ UNCHANGED <<buffers, textures, mt_cat, mt_id, mt_held>>
    /\ MtHandleFrame

\* the device thread enters createProgram; checkThread passes
MtCallCreateProgram(t) ==
    /\ dev_focus = "programs"
    /\ t = MtDeviceThread
    /\ mt_pc[t] = "idle"
    /\ mt_pc' = [mt_pc EXCEPT ![t] = createProgram_entry]
    /\ mt_cat' = [mt_cat EXCEPT ![t] = "program"]
    /\ mt_id' = [mt_id EXCEPT ![t] = -1]
    /\ UNCHANGED <<buffers, textures, handle_mutex, mt_held>>
    /\ MtHandleFrame

\* if (g_ffr.programs.isFull()) return INVALID_PROGRAM
MtProgramIsFull(t) ==
    /\ mt_pc[t] = "p_isFull"
    /\ mt_pc' = [mt_pc EXCEPT ![t] = IF Pool_isFull(programs) THEN "p_return" ELSE "p_build"]
    /\ UNCHANGED <<buffers, textures, handle_mutex, mt_cat, mt_id, mt_held>>
    /\ MtHandleFrame

\* glCreateProgram, the compilation of the stages and glLinkProgram; a stage
\* that does not compile or a failed link returns INVALID_PROGRAM
MtProgramBuild(t) ==
    /\ mt_pc[t] = "p_build"
    /\ \E built \in BOOLEAN :
          mt_pc' = [mt_pc EXCEPT ![t] = IF built THEN "p_alloc" ELSE "p_return"]
    /\ UNCHANGED <<buffers, textures, handle_mutex, mt_cat, mt_id, mt_held>>
    /\ MtHandleFrame

\* const int id = g_ffr.programs.alloc(); g_ffr.programs[id].handle = prg
MtProgramAlloc(t) ==
    /\ mt_pc[t] = "p_alloc"
    /\ programs' = Pool_write(Pool_alloc(programs).pool, Pool_alloc(programs).id, 1)
    /\ mt_pc' = [mt_pc EXCEPT ![t] = "p_reflect"]
    /\ UNCHANGED <<buffers, textures, uniforms, uni_slot, heap, heap_data, uniforms_hash_map>>
    /\ UNCHANGED <<handle_mutex, mt_cat, mt_id, mt_held>>
    /\ MtFrame

\* the reflection loop: glGetActiveUniform and glGetUniformLocation, then
\* allocUniform for the uniform; the loop ends after the last active uniform
MtProgramReflect(t) ==
    /\ mt_pc[t] = "p_reflect"
    /\ \E more \in BOOLEAN :
          mt_pc' = [mt_pc EXCEPT ![t] = IF more /\ mt_id[t] = -1 THEN "u_lock" ELSE "p_return"]
    /\ UNCHANGED <<buffers, textures, handle_mutex, mt_cat, mt_id, mt_held>>
    /\ MtHandleFrame

\* return of createProgram
MtProgramReturn(t) ==
    /\ mt_pc[t] = "p_return"
    /\ mt_pc' = [mt_pc EXCEPT ![t] = "idle"]
    /\ UNCHANGED <<buffers, textures, handle_mutex, mt_cat, mt_id, mt_held>>
    /\ MtHandleFrame

MtNext ==
    \/ \E t \in MtThreadIds, c \in MtCategories : MtCallAlloc(t, c)
    \/ \E t \in MtThreadIds : MtLock(t)
    \/ \E t \in MtThreadIds : MtIsFull(t)
    \/ \E t \in MtThreadIds : MtAllocRead(t)
    \/ \E t \in MtThreadIds : MtAllocPop(t)
    \/ \E t \in MtThreadIds : MtInitSlot(t)
    \/ \E t \in MtThreadIds : MtUnlockReturn(t)
    \/ \E t \in MtThreadIds, c \in MtCategories : \E h \in DOMAIN mt_held[c] : MtCallDestroy(t, c, h)
    \/ \E t \in MtThreadIds : MtGlDelete(t)
    \/ \E t \in MtThreadIds : MtDeallocLink(t)
    \/ \E t \in MtThreadIds : MtDeallocHead(t)
    \/ \E t \in MtThreadIds : MtUnlockDestroy(t)
    \/ \E t \in MtThreadIds : MtCallAllocUniform(t)
    \/ \E t \in MtThreadIds : MtLockUniform(t)
    \/ \E t \in MtThreadIds : MtUniformTable(t)
    \/ \E t \in MtThreadIds : MtUnlockUniform(t)
    \/ \E t \in MtThreadIds : MtCallCreateProgram(t)
    \/ \E t \in MtThreadIds : MtProgramIsFull(t)
    \/ \E t \in MtThreadIds : MtProgramBuild(t)
    \/ \E t \in MtThreadIds : MtProgramAlloc(t)
    \/ \E t \in MtThreadIds : MtProgramReflect(t)
    \/ \E t \in MtThreadIds : MtProgramReturn(t)

SpecMT == MtInit /\ [][MtNext]_vars

\* the statements of a call thread t is inside of
MtRun(t) ==
    \/ MtLock(t)
    \/ MtIsFull(t)
    \/ MtAllocRead(t)
    \/ MtAllocPop(t)
    \/ MtInitSlot(t)
    \/ MtUnlockReturn(t)
    \/ MtGlDelete(t)
    \/ MtDeallocLink(t)
    \/ MtDeallocHead(t)
    \/ MtUnlockDestroy(t)
    \/ MtLockUniform(t)
    \/ MtUniformTable(t)
    \/ MtUnlockUniform(t)
    \/ MtProgramIsFull(t)
    \/ MtProgramBuild(t)
    \/ MtProgramAlloc(t)
    \/ MtProgramReflect(t)
    \/ MtProgramReturn(t)

\* the calls of a behaviour are those on one pool, or those on uniforms and
\* programs
MtFairInit ==
    /\ FbIdle
    /\ GuiIdle
    /\ PoolIdle
    /\ ThreadIdle
    /\ DdsIdle
    /\ MtIdle
    /\ DevTablesFresh
    /\ dev_focus \in {"buffer", "texture", "programs"}

\* every thread that is inside a call and can take its next statement is
\* scheduled again
SpecMTFair ==
    /\ MtFairInit
    /\ [][MtNext]_vars
    /\ \A t \in MtThreadIds : WF_vars(MtRun(t))

\* indices on the free list of p, in list order, following at most fuel links
RECURSIVE FreeListFrom(_, _, _)
FreeListFrom(p, i, fuel) ==
    IF i = -1 \/ fuel = 0 \/ i \notin DOMAIN p.values
    THEN <<>>
    ELSE <<i>> \o FreeListFrom(p, p.values[i], fuel - 1)

FreeList(p) == FreeListFrom(p, p.first_free, Cardinality(DOMAIN p.values) + 1)

\* no thread is inside a call
Quiescent == \A t \in MtThreadIds : mt_pc[t] = "idle"

MtLive(c) == {i \in DOMAIN mt_held[c] : mt_held[c][i] > 0}

\* C6: when allocBufferHandle and allocTextureHandle are called from
\* arbitrary threads while destroy runs on the device thread, no handle is
\* held by two callers at once, and whenever no call is in progress the live
\* handles and the free list together are exactly the slots of the pool:
\* live count + free-list length = capacity, and no live slot is on the list.
C6_ConcurrentAllocation ==
    /\ \A c \in MtCategories : \A i \in DOMAIN mt_held[c] : mt_held[c][i] <= 1
    /\ Quiescent =>
          \A c \in MtCategories :
             /\ Cardinality(MtLive(c)) + Len(FreeList(MtPool(c))) = Cardinality(DOMAIN mt_held[c])
             /\ \A k \in DOMAIN FreeList(MtPool(c)) : FreeList(MtPool(c))[k] \notin MtLive(c)

\* another thread is between the two statements of Pool::alloc while the
\* device thread, inside destroy, waits for the mutex, and a handle is held
C6_Witness ==
    /\ \E t \in MtThreadIds \ {MtDeviceThread} : mt_pc[t] = "alloc_pop" /\ handle_mutex = t
    /\ mt_pc[MtDeviceThread] = "d_lock"
    /\ \E c \in MtCategories : \E i \in MtLive(c) : MtPool(c).values[i] = 0 /\ i # 0

(***************************************************************************)
(* update(FramebufferHandle, ...) on one framebuffer.                      *)
(***************************************************************************)
\* the attachment points the driver reports with GL_MAX_COLOR_ATTACHMENTS
MaxColorAttachments == 2

\* the textures the caller made with createTexture, by handle: the native
\* name and what glGetTexLevelParameteriv(GL_TEXTURE_INTERNAL_FORMAT) reports
FramebufferTextures ==
    (0 :> [handle |-> 1, internal_format |-> "GL_RGBA8"])
    @@ (1 :> [handle |-> 2, internal_format |-> "GL_DEPTH24_STENCIL8"])
    @@ (2 :> [handle |-> 3, internal_format |-> "GL_R32F"])
    @@ (3 :> [handle |-> 4, internal_format |-> "GL_DEPTH_COMPONENT32"])

\* the case labels of the switch in update
IsDepthFormat(internal_format) ==
    internal_format \in {"GL_DEPTH24_STENCIL8", "GL_DEPTH_COMPONENT24", "GL_DEPTH_COMPONENT32"}

\* the framebuffer's attachments: colour points 0 .. MaxColorAttachments - 1 and the depth point
Attachments == [color |-> fb_color, depth |-> fb_depth]

\* glNamedFramebufferTexture / glNamedFramebufferRenderbuffer on a colour
\* point; the driver rejects a point it does not have
AttachColor(att, i, t) ==
    IF i \in DOMAIN att.color THEN [att EXCEPT !.color[i] = t] ELSE att

\* the first loop of update from renderbuffer i on
RECURSIVE AttachRenderbuffers(_, _, _, _, _, _)
AttachRenderbuffers(att, tex, renderbuffers, i, color_attachment_idx, depth_bound) ==
    IF i > Len(renderbuffers)
    THEN [att |-> att, color_attachment_idx |-> color_attachment_idx, depth_bound |-> depth_bound]
    ELSE LET t == tex[renderbuffers[i]].handle IN
         IF IsDepthFormat(tex[renderbuffers[i]].internal_format)
         THEN AttachRenderbuffers([att EXCEPT !.depth = t], tex, renderbuffers, i + 1,
                                  color_attachment_idx, TRUE)
         ELSE AttachRenderbuffers(AttachColor(att, color_attachment_idx, t), tex, renderbuffers, i + 1,
                                  color_attachment_idx + 1, depth_bound)

update_keepsRest(att, tex, renderbuffers) ==
    AttachRenderbuffers(att, tex, renderbuffers, 1, 0, FALSE).att

\* update(fb, renderbuffers_count, renderbuffers): the attachments after the call
update(att, tex, renderbuffers) ==
    LET r == AttachRenderbuffers(att, tex, renderbuffers, 1, 0, FALSE) IN
    [color |-> [i \in DOMAIN r.att.color |-> IF i >= r.color_attachment_idx THEN 0 ELSE r.att.color[i]],
     depth |-> IF r.depth_bound THEN r.att.depth ELSE 0]

\* the renderbuffers handed to update: up to MaxColorAttachments + 1 live
\* texture handles, each once, no more of them colour textures than the
\* driver has points
RenderbufferLists ==
    { rb \in UNION { [1 .. n -> DOMAIN fb_textures] : n \in 0 .. (MaxColorAttachments + 1) } :
        /\ \A i, j \in DOMAIN rb : rb[i] = rb[j] => i = j
        /\ Len(SelectSeq(rb, LAMBDA h : ~IsDepthFormat(fb_textures[h].internal_format))) <= MaxColorAttachments }

FbFrame == UNCHANGED <<poolVars, threadVars, ddsVars, mtVars, devVars, guiVars>>

\* a framebuffer just generated, nothing attached
FbInit ==
    /\ PoolIdle
    /\ ThreadIdle
    /\ DdsIdle
    /\ MtIdle
    /\ DevIdle
    /\ GuiIdle
    /\ fb_textures = FramebufferTextures
    /\ fb_color = [i \in Indices(MaxColorAttachments) |-> 0]
    /\ fb_depth = 0
    /\ fb_call = <<>>
    /\ fb_before = <<>>

\* a call of update
FbUpdate ==
    /\ \E renderbuffers \in RenderbufferLists :
        LET att == update(Attachments, fb_textures, renderbuffers) IN
        /\ fb_color' = att.color
        /\ fb_depth' = att.depth
        /\ fb_call' = renderbuffers
        /\ fb_before' = Attachments
    /\ UNCHANGED fb_textures
    /\ FbFrame

FbNext == FbUpdate

SpecFramebuffer == FbInit /\ [][FbNext]_vars

(***************************************************************************)
(* Calls on the device layer, one at a time.                               *)
(***************************************************************************)
\* destroy(ProgramHandle): the native programs after the call
destroy_Program(gl, program) ==
    IF program # INVALID_PROGRAM THEN gl \ {program} ELSE gl

\* type and count allocUniform is called with: an array of two matrices, a
\* shape no active uniform of the programs has
UniformShapes == { <<"MAT4", 2>> }

\* what glGetActiveUniform and glGetUniformLocation report of one uniform
ActiveUniforms ==
    { [name |-> "u_color", type |-> "GL_FLOAT_VEC4", size |-> 1, loc |-> 0],
      [name |-> "plumless", type |-> "GL_SAMPLER_2D", size |-> 1, loc |-> 1],
      [name |-> "u_time", type |-> "GL_FLOAT", size |-> 2, loc |-> -1] }

\* the active uniforms of a linked program: up to one more than Program::uniforms holds
ActiveLists ==
    UNION { {s \in [1 .. n -> ActiveUniforms] : \A i, j \in 1 .. n : s[i] = s[j] => i = j} :
            n \in 0 .. (PROGRAM_UNIFORMS + 1) }

\* what the driver makes of the stages of a createProgram call: the compile
\* status of each stage, the link status, and the active uniforms, which
\* only a linked program has
ProgramBuilds ==
    { [compiled |-> c, linked |-> FALSE, active |-> <<>>] :
        c \in { <<TRUE>>, <<TRUE, FALSE>>, <<FALSE, TRUE>>,
                 [i \in 1 .. (MAX_SHADERS_PER_PROGRAM + 1) |-> TRUE] } }
    \cup { [compiled |-> <<TRUE, TRUE>>, linked |-> TRUE, active |-> a] : a \in ActiveLists }

\* the name glCreateProgram hands out
FreshProgram ==
    IF \E n \in 1 .. MaxNativePrograms : n \notin gl_programs
    THEN CHOOSE n \in 1 .. MaxNativePrograms : n \notin gl_programs
    ELSE 0

DevFrame == UNCHANGED <<dev_focus, poolVars, threadVars, tex_cubemap, gl_textures, ld_call, ld_before, ld_ret, handle_mutex, mt_pc, mt_cat, mt_id, mt_held, fbVars, guiVars>>

\* a behaviour is a sequence of calls about the buffer and texture tables,
\* or of calls that make, use and destroy uniforms and programs, or of calls
\* that make and use them and set uniforms; a call leaves the other tables alone
DevInit ==
    /\ FbIdle
    /\ GuiIdle
    /\ PoolIdle
    /\ ThreadIdle
    /\ DdsIdle
    /\ MtIdle
    /\ DevTablesFresh
    /\ dev_focus \in {"handles", "programs", "uniforms"}

DevAllocBufferHandle ==
    /\ dev_focus = "handles"
    /\ LET r == allocBufferHandle(buffers) IN
        /\ buffers' = r.pool
        /\ buf_live' = IF r.handle = INVALID_BUFFER THEN buf_live ELSE buf_live \cup {r.handle}
        /\ dev_ret' = r.handle
    /\ dev_call' = [fn |-> "allocBufferHandle"]
    /\ dev_trace' = <<>>
    /\ UNCHANGED <<textures, tex_live, uniforms, uni_slot, heap, heap_data, uniforms_hash_map, programs, prg_uniforms, prg_live, gl_programs>>
    /\ DevFrame

DevAllocTextureHandle ==
    /\ dev_focus = "handles"
    /\ LET r == allocTextureHandle(textures) IN
        /\ textures' = r.pool
        /\ tex_live' = IF r.handle = INVALID_TEXTURE THEN tex_live ELSE tex_live \cup {r.handle}
        /\ dev_ret' = r.handle
    /\ dev_call' = [fn |-> "allocTextureHandle"]
    /\ dev_trace' = <<>>
    /\ UNCHANGED <<buffers, buf_live, uniforms, uni_slot, heap, heap_data, uniforms_hash_map, programs, prg_uniforms, prg_live, gl_programs>>
    /\ DevFrame

DevAllocUniform ==
    /\ dev_focus \in {"programs", "uniforms"}
    /\ \E name \in UniformNames, shape \in UniformShapes :
        LET r == allocUniform(UniformStore, name, shape[1], shape[2]) IN
        /\ uniforms' = r.u.pool
        /\ uni_slot' = r.u.slot
        /\ heap' = r.u.heap
        /\ heap_data' = r.u.mem
        /\ uniforms_hash_map' = r.u.map
        /\ dev_ret' = r.handle
        /\ dev_call' = [fn |-> "allocUniform", name |-> name, type |-> shape[1], count |-> shape[2]]
        /\ dev_trace' = <<>>
    /\ UNCHANGED <<buffers, buf_live, textures, tex_live, programs, prg_uniforms, prg_live, gl_programs>>
    /\ DevFrame

\* createProgram; glCreateProgram needs a name to hand out when it is reached
DevCreateProgram ==
    /\ dev_focus \in {"programs", "uniforms"}
    /\ Pool_isFull(programs) \/ Cardinality(gl_programs) < MaxNativePrograms
    /\ \E build \in ProgramBuilds :
        LET r == createProgram(programs, prg_uniforms, UniformStore, gl_programs, FreshProgram,
                               Len(build.compiled), build.compiled, build.linked, build.active)
        IN
        /\ programs' = r.programs
        /\ prg_uniforms' = r.prg_uniforms
        /\ uniforms' = r.u.pool
        /\ uni_slot' = r.u.slot
        /\ heap' = r.u.heap
        /\ heap_data' = r.u.mem
        /\ uniforms_hash_map' = r.u.map
        /\ gl_programs' = r.gl_programs
        /\ prg_live' = IF r.handle = INVALID_PROGRAM THEN prg_live ELSE prg_live \cup {r.handle}
        /\ dev_ret' = r.handle
        /\ dev_call' = [fn |-> "createProgram", build |-> build]
        /\ dev_trace' = r.calls
    /\ UNCHANGED <<buffers, buf_live, textures, tex_live>>
    /\ DevFrame

\* destroy(BufferHandle) of a handle the caller holds; the slot's native name
\* goes to glDeleteBuffers, then the slot goes back to the pool
DevDestroyBuffer ==
    /\ dev_focus = "handles"
    /\ \E buffer \in buf_live :
        /\ buffers' = Pool_dealloc(buffers, buffer)
        /\ buf_live' = buf_live \ {buffer}
        /\ dev_call' = [fn |-> "destroy_Buffer", handle |-> buffer]
        /\ dev_trace' = <<GlObjectCall("glDeleteBuffers", buffers.values[buffer])>>
    /\ dev_ret' = -1
    /\ UNCHANGED <<textures, tex_live, uniforms, uni_slot, heap, heap_data, uniforms_hash_map, programs, prg_uniforms, prg_live, gl_programs>>
    /\ DevFrame

\* destroy(TextureHandle) of a handle the caller holds
DevDestroyTexture ==
    /\ dev_focus = "handles"
    /\ \E texture \in tex_live :
        /\ textures' = Pool_dealloc(textures, texture)
        /\ tex_live' = tex_live \ {texture}
        /\ dev_call' = [fn |-> "destroy_Texture", handle |-> texture]
        /\ dev_trace' = <<GlObjectCall("glDeleteTextures", textures.values[texture])>>
    /\ dev_ret' = -1
    /\ UNCHANGED <<buffers, buf_live, uniforms, uni_slot, heap, heap_data, uniforms_hash_map, programs, prg_uniforms, prg_live, gl_programs>>
    /\ DevFrame

\* destroy(ProgramHandle) of a handle the caller holds, or of the invalid handle
DevDestroyProgram ==
    /\ dev_focus = "programs"
    /\ \E program \in prg_live \cup {INVALID_PROGRAM} :
        /\ gl_programs' = destroy_Program(gl_programs, program)
        /\ prg_live' = prg_live \ {program}
        /\ dev_call' = [fn |-> "destroy_Program", handle |-> program]
        /\ dev_trace' = IF program # INVALID_PROGRAM
                        THEN <<GlObjectCall("glDeleteProgram", program)>>
                        ELSE <<>>
    /\ dev_ret' = -1
    /\ UNCHANGED <<buffers, buf_live, textures, tex_live, uniforms, uni_slot, heap, heap_data, uniforms_hash_map, programs, prg_uniforms>>
    /\ DevFrame

\* what lies past the end of the uniform pool when useProgram reads there
StrayUniforms == { RawUniformRead, [type |-> "INT", count |-> 1, value |-> 1] }

\* the values the callers write into uniforms
UniformValues == {0, 1}

\* setUniform1i .. setUniformMatrix3x4f on a handle allocUniform returned,
\* the one whose asserted type is the type of the slot
DevSetUniform ==
    /\ dev_focus = "uniforms"
    /\ \E fn \in DOMAIN UniformSetters, h \in DOMAIN uniforms_hash_map, value \in UniformValues :
        LET uniform == uniforms_hash_map[h] IN
        /\ uni_slot[uniform].type = UniformSetters[fn]
        /\ heap_data' = setUniform(UniformStore, uniform, value)
        /\ dev_call' = [fn |-> fn, uniform |-> uniform, value |-> value]
    /\ dev_ret' = -1
    /\ dev_trace' = <<>>
    /\ UNCHANGED <<buffers, buf_live, textures, tex_live, uniforms, uni_slot, heap, uniforms_hash_map, programs, prg_uniforms, prg_live, gl_programs>>
    /\ DevFrame

\* useProgram of a handle the caller holds, or of the invalid handle
DevUseProgram ==
    /\ dev_focus \in {"programs", "uniforms"}
    /\ \E handle \in prg_live \cup {INVALID_PROGRAM}, stray \in StrayUniforms :
        /\ dev_trace' = useProgram(programs, prg_uniforms, UniformStore, handle, stray)
        /\ dev_call' = [fn |-> "useProgram", handle |-> handle]
    /\ dev_ret' = -1
    /\ UNCHANGED <<buffers, buf_live, textures, tex_live, uniforms, uni_slot, heap, heap_data, uniforms_hash_map, programs, prg_uniforms, prg_live, gl_programs>>
    /\ DevFrame

\* getUniformLocation of a program the caller holds and any uniform slot
DevGetUniformLocation ==
    /\ dev_focus = "programs"
    /\ \E program_handle \in prg_live, uniform \in DOMAIN uni_slot :
        /\ dev_ret' = getUniformLocation(prg_uniforms, program_handle, uniform)
        /\ dev_call' = [fn |-> "getUniformLocation", handle |-> program_handle, uniform |-> uniform]
    /\ dev_trace' = <<>>
    /\ UNCHANGED <<buffers, buf_live, textures, tex_live, uniforms, uni_slot, heap, heap_data, uniforms_hash_map, programs, prg_uniforms, prg_live, gl_programs>>
    /\ DevFrame

\* getTextureImage: the native call made
getTextureImage(texture) == <<GlObjectCall("glGetTextureImage", texture)>>

\* getTextureImage of a handle the caller holds
DevGetTextureImage ==
    /\ dev_focus = "handles"
    /\ \E texture \in tex_live :
        /\ dev_call' = [fn |-> "getTextureImage", handle |-> texture]
        /\ dev_trace' = getTextureImage(texture)
    /\ dev_ret' = -1
    /\ UNCHANGED <<buffers, buf_live, textures, tex_live, uniforms, uni_slot, heap, heap_data, uniforms_hash_map, programs, prg_uniforms, prg_live, gl_programs>>
    /\ DevFrame

\* a block handed back to g_ffr.allocator: the values of a pool, the name
\* table, or storage block index of the uniforms
Deallocate(block, index) == [call |-> "deallocate", block |-> block, index |-> index]

\* shutdown: the blocks handed back to the allocator, in order
shutdown ==
    << Deallocate("textures.values", 0), Deallocate("buffers.values", 0),
       Deallocate("uniforms.values", 0), Deallocate("programs.values", 0),
       Deallocate("uniforms_hash_map", 0) >>

\* shutdown ends the behaviour: no call follows it
DevShutdown ==
    /\ dev_focus \in {"handles", "programs", "uniforms"}
    /\ dev_focus' = "down"
    /\ dev_call' = [fn |-> "shutdown"]
    /\ dev_trace' = shutdown
    /\ dev_ret' = -1
    /\ UNCHANGED <<buffers, buf_live, textures, tex_live, uniforms, uni_slot, heap, heap_data, uniforms_hash_map, programs, prg_uniforms, prg_live, gl_programs>>
    /\ UNCHANGED <<poolVars, threadVars, tex_cubemap, gl_textures, ld_call, ld_before, ld_ret, handle_mutex, mt_pc, mt_cat, mt_id, mt_held, fbVars, guiVars>>

DevNext ==
    \/ DevAllocBufferHandle
    \/ DevAllocTextureHandle
    \/ DevAllocUniform
    \/ DevCreateProgram
    \/ DevDestroyBuffer
    \/ DevDestroyTexture
    \/ DevDestroyProgram
    \/ DevSetUniform
    \/ DevUseProgram
    \/ DevGetUniformLocation
    \/ DevGetTextureImage
    \/ DevShutdown

SpecDevice == DevInit /\ [][DevNext]_vars

\* what the four tables hold: free-list heads, slots and the name table
DevTables == <<buffers, textures, tex_cubemap, uniforms, uni_slot, uniforms_hash_map, programs, prg_uniforms>>

\* C4: a call of allocBufferHandle, allocTextureHandle, allocUniform with a
\* name whose hash is not in the name table, or createProgram, made while the
\* pool of its category is full, returns the invalid handle of the category
\* and leaves the free-list heads, every slot and the name table as they were.
C4_FullPoolRefuses ==
    [][ /\ (dev_call'.fn = "allocBufferHandle" /\ Pool_isFull(buffers))
            => (dev_ret' = INVALID_BUFFER /\ UNCHANGED DevTables)
        /\ (dev_call'.fn = "allocTextureHandle" /\ Pool_isFull(textures))
            => (dev_ret' = INVALID_TEXTURE /\ UNCHANGED DevTables)
        /\ (dev_call'.fn = "allocUniform" /\ Pool_isFull(uniforms)
              /\ crc32(dev_call'.name) \notin DOMAIN uniforms_hash_map)
            => (dev_ret' = INVALID_UNIFORM /\ UNCHANGED DevTables)
        /\ (dev_call'.fn = "createProgram" /\ Pool_isFull(programs))
            => (dev_ret' = INVALID_PROGRAM /\ UNCHANGED DevTables /\ UNCHANGED gl_programs)
      ]_vars

\* the uniform and program pools are full, the name table is filled, and a
\* createProgram call whose stages compile and link was refused
C4_Witness ==
    /\ Pool_isFull(uniforms) /\ Pool_isFull(programs)
    /\ Cardinality(DOMAIN uniforms_hash_map) = UNIFORM_MAX_COUNT
    /\ dev_call.fn = "createProgram"
    /\ dev_call.build.linked
    /\ dev_call.build.active # <<>>
    /\ dev_ret = INVALID_PROGRAM

\* the uniform slots handed out: those not on the free list
UniformsAllocated ==
    Indices(UNIFORM_MAX_COUNT) \ {FreeList(uniforms)[k] : k \in DOMAIN FreeList(uniforms)}

\* the slot the name table holds for a name, INVALID_UNIFORM when it has none
SlotOfName(map, name) ==
    IF crc32(name) \in DOMAIN map THEN map[crc32(name)] ELSE INVALID_UNIFORM

\* the active uniforms createProgram records: the first PROGRAM_UNIFORMS
\* ones, those with a location
RecordedActive(active) ==
    SelectSeq(SubSeq(active, 1, IF Len(active) > PROGRAM_UNIFORMS THEN PROGRAM_UNIFORMS ELSE Len(active)),
              LAMBDA a : a.loc >= 0)

\* the setter functions
C14_Setters == DOMAIN UniformSetters

C15_FirstDeclarationWins ==
    [][ /\ \A id \in UniformsAllocated : uni_slot'[id] = uni_slot[id]
        /\ \A b \in DOMAIN heap : b \in DOMAIN heap' /\ heap'[b] = heap[b]
        /\ (dev_call'.fn = "allocUniform" /\ crc32(dev_call'.name) \in DOMAIN uniforms_hash_map) =>
              /\ dev_ret' = uniforms_hash_map[crc32(dev_call'.name)]
              /\ UNCHANGED <<uniforms, uni_slot, heap, heap_data, uniforms_hash_map>>
        /\ (dev_call'.fn = "createProgram"
              /\ \A i \in DOMAIN dev_call'.build.active :
                    crc32(dev_call'.build.active[i].name) \in DOMAIN uniforms_hash_map) =>
              UNCHANGED <<uniforms, uni_slot, heap, heap_data, uniforms_hash_map>>
      ]_vars

\* allocUniform was given a name already in the table with another type and
\* count than the slot has, and the slot kept its own
C15_Witness ==
    /\ dev_call.fn = "allocUniform"
    /\ dev_ret # INVALID_UNIFORM
    /\ Len(heap) = 1
    /\ uni_slot[dev_ret].type # dev_call.type
    /\ uni_slot[dev_ret].count # dev_call.count
    /\ heap[uni_slot[dev_ret].data] # getSize(dev_call.type) * dev_call.count

\* the stages of the last createProgram call that do not compile
C16_FailingStages(call) == {k \in DOMAIN call.build.compiled : ~call.build.compiled[k]}

\* the native calls of the given kind in a trace
C16_Calls(trace, call) == SelectSeq(trace, LAMBDA c : c.call = call)

\* C16: when createProgram reaches the stages and one of them does not
\* compile, it returns INVALID_PROGRAM, compiles no stage after the first
\* failing one, does not link, and takes no slot from the program pool
C16_CompileFailureStops ==
    [][ (/\ dev_call'.fn = "createProgram"
         /\ ~Pool_isFull(programs)
         /\ Len(dev_call'.build.compiled) <= MAX_SHADERS_PER_PROGRAM
         /\ C16_FailingStages(dev_call') # {})
        => LET first == CHOOSE k \in C16_FailingStages(dev_call') :
                            \A j \in C16_FailingStages(dev_call') : k <= j
               compiles == C16_Calls(dev_trace', "glCompileShader")
           IN /\ dev_ret' = INVALID_PROGRAM
              /\ Len(compiles) = first
              /\ \A i \in DOMAIN compiles : compiles[i].name = i
              /\ C16_Calls(dev_trace', "glLinkProgram") = <<>>
              /\ UNCHANGED <<programs, prg_uniforms, prg_live>>
              /\ UNCHANGED <<uniforms, uni_slot, heap, heap_data, uniforms_hash_map>>
      ]_vars

\* a createProgram call whose first stage did not compile and whose second
\* would have
C16_Witness ==
    /\ dev_call.fn = "createProgram"
    /\ dev_call.build.compiled = <<FALSE, TRUE>>
    /\ C16_Calls(dev_trace, "glCompileShader") = <<GlObjectCall("glCompileShader", 1)>>
    /\ dev_ret = INVALID_PROGRAM

\* the call that deletes what the given call creates, "none" for other calls
C17_DeleteOf(call) ==
    CASE call = "glCreateProgram" -> "glDeleteProgram"
      [] call = "glCreateShader" -> "glDeleteShader"
      [] OTHER -> "none"

\* C17: when createProgram returns INVALID_PROGRAM after a stage did not
\* compile or the program did not link, every native object the call
\* created (the program and each shader) was deleted later in the call
C17_FailureDeletesObjects ==
    (dev_call.fn = "createProgram" /\ dev_ret = INVALID_PROGRAM) =>
        \A i \in DOMAIN dev_trace :
            C17_DeleteOf(dev_trace[i].call) # "none" =>
                \E j \in DOMAIN dev_trace :
                    /\ j > i
                    /\ dev_trace[j].call = C17_DeleteOf(dev_trace[i].call)
                    /\ dev_trace[j].name = dev_trace[i].name

\* the same for the calls that fail at the link step
C17_LinkFailureDeletesObjects ==
    (/\ dev_call.fn = "createProgram" /\ dev_ret = INVALID_PROGRAM
     /\ C16_Calls(dev_trace, "glLinkProgram") # <<>>) =>
        /\ \A i \in DOMAIN dev_trace :
            C17_DeleteOf(dev_trace[i].call) # "none" =>
                \E j \in DOMAIN dev_trace :
                    /\ j > i
                    /\ dev_trace[j].call = C17_DeleteOf(dev_trace[i].call)
                    /\ dev_trace[j].name = dev_trace[i].name

\* a destroy call on a slot of pool p released the slot's native object with
\* one call of the given name and gave the slot back: the free list of the
\* pool after the call, q, is one longer
C18_Released(p, q, delete) ==
    /\ dev_trace' = <<GlObjectCall(delete, p.values[dev_call'.handle])>>
    /\ Len(FreeList(q)) = Len(FreeList(p)) + 1

\* C18: destroy of a live buffer, texture or program handle releases the
\* native object of the slot exactly once and returns the slot to its pool
C18_DestroyReleasesSlot ==
    [][ /\ (dev_call'.fn = "destroy_Buffer") => C18_Released(buffers, buffers', "glDeleteBuffers")
        /\ (dev_call'.fn = "destroy_Texture") => C18_Released(textures, textures', "glDeleteTextures")
        /\ (dev_call'.fn = "destroy_Program" /\ dev_call'.handle # INVALID_PROGRAM)
              => C18_Released(programs, programs', "glDeleteProgram")
      ]_vars

\* the same for buffers and textures alone
C18_BufferTextureReleased ==
    [][ /\ (dev_call'.fn = "destroy_Buffer") => C18_Released(buffers, buffers', "glDeleteBuffers")
        /\ (dev_call'.fn = "destroy_Texture") => C18_Released(textures, textures', "glDeleteTextures")
      ]_vars

\* after createProgram and destroy of its handle the program pool is still
\* full and the native program still exists
C18_ProgramSlotLost ==
    /\ dev_call.fn = "destroy_Program"
    /\ dev_call.handle # INVALID_PROGRAM
    /\ prg_live = {}
    /\ Pool_isFull(programs)
    /\ programs.values[dev_call.handle] \in gl_programs

\* the uploads of a useProgram trace match the pairs of the program one to
\* one: the call of the slot's type, at the pair's location, with the slot's
\* count and the content of the slot's storage
C19_UploadsMatch(list) ==
    /\ Len(dev_trace) = 1 + Len(list)
    /\ \A i \in DOMAIN list :
          /\ list[i].uniform \in UniformsAllocated
          /\ dev_trace[i + 1].loc = list[i].loc
          /\ dev_trace[i + 1].call = UploadCall(uni_slot[list[i].uniform].type)
          /\ dev_trace[i + 1].value = heap_data[uni_slot[list[i].uniform].data]

\* C19: useProgram of a valid handle binds the native program of the slot
\* and then makes exactly one upload for each (location, uniform) pair the
\* program recorded, with what the uniform's storage holds at the call;
\* useProgram of the invalid handle makes no native call
C19_UseProgramUploads ==
    dev_call.fn = "useProgram" =>
        IF dev_call.handle = INVALID_PROGRAM
        THEN dev_trace = <<>>
        ELSE /\ dev_trace # <<>>
             /\ dev_trace[1] = GlObjectCall("glUseProgram", programs.values[dev_call.handle])
             /\ C19_UploadsMatch(prg_uniforms[dev_call.handle])

\* the same for the programs whose pairs all hold a uniform handle
C19_ValidPairsUploaded ==
    (/\ dev_call.fn = "useProgram"
     /\ dev_call.handle # INVALID_PROGRAM
     /\ \A i \in DOMAIN prg_uniforms[dev_call.handle] :
            prg_uniforms[dev_call.handle][i].uniform # INVALID_UNIFORM)
        => /\ dev_trace # <<>>
           /\ dev_trace[1] = GlObjectCall("glUseProgram", programs.values[dev_call.handle])
           /\ C19_UploadsMatch(prg_uniforms[dev_call.handle])

\* useProgram uploaded a value written with setUniform*
C19_WrittenValueUploaded ==
    /\ dev_call.fn = "useProgram"
    /\ Len(dev_trace) = 2
    /\ prg_uniforms[dev_call.handle][1].uniform # INVALID_UNIFORM
    /\ dev_trace[2].value = 1

\* the native textures of the renderbuffers of the last update call that are
\* colour textures, in the order supplied
C20_Colors ==
    LET cs == SelectSeq(fb_call, LAMBDA h : fb_textures[h].internal_format \notin
                            {"GL_DEPTH24_STENCIL8", "GL_DEPTH_COMPONENT24", "GL_DEPTH_COMPONENT32"})
    IN [i \in DOMAIN cs |-> fb_textures[cs[i]].handle]

\* the native textures of those that are depth textures, in the order supplied
C20_Depths ==
    LET ds == SelectSeq(fb_call, LAMBDA h : fb_textures[h].internal_format \in
                            {"GL_DEPTH24_STENCIL8", "GL_DEPTH_COMPONENT24", "GL_DEPTH_COMPONENT32"})
    IN [i \in DOMAIN ds |-> fb_textures[ds[i]].handle]

\* C20: whatever was attached before, after update the colour points
\* 0 .. k-1 hold the k colour textures supplied, in order, the colour points
\* from k on are empty, and the depth point holds a depth texture supplied
\* (the last one), or is empty when none was: the attachments are a function
\* of the renderbuffers of the call
C20_AttachmentsFromInputs ==
    /\ \A i \in DOMAIN fb_color :
          fb_color[i] = IF i < Len(C20_Colors) THEN C20_Colors[i + 1] ELSE 0
    /\ fb_depth = IF C20_Depths = <<>> THEN 0 ELSE C20_Depths[Len(C20_Depths)]

\* update was called with one colour texture and no depth texture on a
\* framebuffer that had every colour point and the depth point occupied
C20_Witness ==
    /\ Len(fb_call) = 1
    /\ Len(C20_Colors) = 1
    /\ fb_before # <<>>
    /\ \A i \in DOMAIN fb_before.color : fb_before.color[i] # 0
    /\ fb_before.depth # 0
    /\ fb_color[0] = C20_Colors[1]
    /\ fb_color[1] = 0
    /\ fb_depth = 0

\* the blocks the device state has taken from the allocator since preinit:
\* the values of the four pools, the name table, and one storage block for
\* each uniform slot handed out
C21_Owned ==
    { Deallocate(b, 0) : b \in {"textures.values", "buffers.values", "uniforms.values",
                                 "programs.values", "uniforms_hash_map"} }
    \cup { Deallocate("uniform.data", k) : k \in DOMAIN heap }

\* C21: shutdown hands back every block the device state owns exactly once,
\* the storage of every uniform slot included, and before shutdown no call
\* frees a uniform slot, its storage or its entry of the name table
C21_ShutdownReleasesAll ==
    /\ [](dev_call.fn = "shutdown" =>
            \A b \in C21_Owned : Len(SelectSeq(dev_trace, LAMBDA c : c = b)) = 1)
    /\ [][ dev_call'.fn # "shutdown" =>
              /\ \A h \in DOMAIN uniforms_hash_map :
                    h \in DOMAIN uniforms_hash_map' /\ uniforms_hash_map'[h] = uniforms_hash_map[h]
              /\ UniformsAllocated \subseteq UniformsAllocated'
              /\ \A k \in DOMAIN heap : k \in DOMAIN heap' /\ heap'[k] = heap[k]
              /\ \A c \in {dev_trace'[i] : i \in DOMAIN dev_trace'} : c.call # "deallocate"
          ]_vars

\* the part of it about the pools and the name table
C21_PoolsAndTableReleased ==
    dev_call.fn = "shutdown" =>
        \A b \in {"textures.values", "buffers.values", "uniforms.values", "programs.values",
                   "uniforms_hash_map"} :
            Len(SelectSeq(dev_trace, LAMBDA c : c = Deallocate(b, 0))) = 1

\* shutdown after a uniform was allocated: its storage block is not handed back
C21_StorageLeaked ==
    /\ dev_call.fn = "shutdown"
    /\ heap # <<>>
    /\ \A i \in DOMAIN dev_trace : dev_trace[i].block # "uniform.data"

\* the steps that read or write the free list of a pool or the name table
C23_TableSteps ==
    {"isFull", "alloc_read", "alloc_pop", "dealloc_link", "dealloc_head",
     "u_table", "p_isFull", "p_alloc"}

\* C23: a thread about to read or write the free list of the buffer, texture,
\* uniform or program pool, or the uniform name table, holds the handle mutex
C23_TablesUnderMutex ==
    \A t \in MtThreadIds : mt_pc[t] \in C23_TableSteps => handle_mutex = t

\* the same for the buffer, texture and uniform pools and the name table
C23_HandleTablesUnderMutex ==
    \A t \in MtThreadIds :
        mt_pc[t] \in C23_TableSteps \ {"p_isFull", "p_alloc"} => handle_mutex = t

\* createProgram takes a program slot while another thread holds the mutex
C23_ProgramSlotWithoutMutex ==
    /\ mt_pc[MtDeviceThread] = "p_alloc"
    /\ handle_mutex \notin {0, MtDeviceThread}

\* C22: while dealloc is only called on indices that are handed out, the
\* head of the free list is -1 or the index of a slot that is not handed
\* out, and the links from the head visit every slot that is not handed out
\* exactly once and end at -1
C22_FreeListCoversNotLive ==
    LET list == FreeList(pool)
        free == DOMAIN holders \ Live
    IN  /\ pool.first_free = -1 \/ pool.first_free \in free
        /\ {list[k] : k \in DOMAIN list} = free
        /\ Len(list) = Cardinality(free)
        /\ IF list = <<>> THEN pool.first_free = -1 ELSE pool.values[list[Len(list)]] = -1

\* a slot was handed back while another is out and its holder has stored a
\* word into it that is an index of the pool; the list has two slots again
C22_Witness ==
    /\ op = "dealloc"
    /\ Len(FreeList(pool)) = 2
    /\ \E i \in Live : pool.values[i] \in DOMAIN pool.values

\* the steps that make native GPU calls
C24_NativeSteps == {"glDelete", "p_build", "p_reflect"}

\* the steps between the constructor and the destructor of a SpinLock
C24_LockedSteps ==
    {"isFull", "alloc_read", "alloc_pop", "init", "unlock",
     "dealloc_link", "dealloc_head", "d_unlock", "u_table", "u_unlock"}

\* C24: no thread makes a native GPU call while it holds the handle mutex;
\* a thread holds the mutex only between the constructor and the destructor
\* of a SpinLock, so it has released it at every return, those on a full
\* pool included; and a thread that holds the mutex releases it, so that the
\* mutex becomes free for a thread that waits
C24_MutexHeldBriefly ==
    /\ [](\A t \in MtThreadIds :
            /\ mt_pc[t] \in C24_NativeSteps => handle_mutex # t
            /\ handle_mutex = t <=> mt_pc[t] \in C24_LockedSteps)
    /\ \A t \in MtThreadIds : (handle_mutex = t) ~> (handle_mutex = 0)

\* a thread returns INVALID on a full pool under the lock while the device
\* thread, after glDelete, waits for the mutex
C24_Witness ==
    /\ \E t \in MtThreadIds \ {MtDeviceThread} :
          mt_pc[t] = "unlock" /\ mt_id[t] = -1 /\ handle_mutex = t
    /\ mt_pc[MtDeviceThread] = "d_lock"

\* the native calls that take the name of a buffer, texture or program
C25_ObjectCalls ==
    {"glDeleteBuffers", "glDeleteTextures", "glDeleteProgram", "glUseProgram", "glGetTextureImage"}

\* every native call of the step that takes an object name is given the
\* native object stored in slot dev_call'.handle of pool p
C25_NamesSlotObject(p) ==
    \A i \in DOMAIN dev_trace' :
        dev_trace'[i].call \in C25_ObjectCalls => dev_trace'[i].name = p.values[dev_call'.handle]

\* C25: an entry point that receives a valid buffer, texture or program
\* handle passes to the native API the native object stored in the slot of
\* the handle, never the integer of the handle
C25_NativeObjectOfSlot ==
    [][ /\ (dev_call'.fn = "destroy_Buffer") => C25_NamesSlotObject(buffers)
        /\ (dev_call'.fn \in {"destroy_Texture", "getTextureImage"}) => C25_NamesSlotObject(textures)
        /\ (dev_call'.fn \in {"destroy_Program", "useProgram"} /\ dev_call'.handle # INVALID_PROGRAM)
              => C25_NamesSlotObject(programs)
      ]_vars

\* the same without destroy(ProgramHandle) and getTextureImage
C25_OtherEntryPoints ==
    [][ /\ (dev_call'.fn = "destroy_Buffer") => C25_NamesSlotObject(buffers)
        /\ (dev_call'.fn = "destroy_Texture") => C25_NamesSlotObject(textures)
        /\ (dev_call'.fn = "useProgram" /\ dev_call'.handle # INVALID_PROGRAM)
              => C25_NamesSlotObject(programs)
      ]_vars

\* getTextureImage passed the handle where the slot holds another name
C25_HandlePassedAsName ==
    /\ dev_call.fn = "getTextureImage"
    /\ dev_trace = <<GlObjectCall("glGetTextureImage", dev_call.handle)>>
    /\ textures.values[dev_call.handle] # dev_call.handle

\* C26: a program never has more recorded pairs than Program::uniforms
\* holds, and createProgram of a program that links with more active
\* uniforms than that returns a valid handle whose pairs come from the first
\* PROGRAM_UNIFORMS uniforms the driver enumerates, the others being ignored
C26_PairsCapped ==
    /\ [](\A i \in DOMAIN prg_uniforms : Len(prg_uniforms[i]) \in 0 .. PROGRAM_UNIFORMS)
    /\ [][ (/\ dev_call'.fn = "createProgram"
            /\ dev_call'.build.linked
            /\ Len(dev_call'.build.active) > PROGRAM_UNIFORMS
            /\ ~Pool_isFull(programs))
           => /\ dev_ret' \in DOMAIN prg_uniforms
              /\ dev_ret' \notin prg_live
              /\ LET rec == RecordedActive(dev_call'.build.active) IN
                  /\ Len(prg_uniforms'[dev_ret']) = Len(rec)
                  /\ \A k \in DOMAIN rec : prg_uniforms'[dev_ret'][k].loc = rec[k].loc
      ]_vars

\* a program with one active uniform too many, the last one with a
\* location, was created and has as many pairs as Program::uniforms holds
C26_Witness ==
    /\ dev_call.fn = "createProgram"
    /\ dev_ret # INVALID_PROGRAM
    /\ Len(dev_call.build.active) = PROGRAM_UNIFORMS + 1
    /\ dev_call.build.active[PROGRAM_UNIFORMS + 1].loc >= 0
    /\ Len(prg_uniforms[dev_ret]) = PROGRAM_UNIFORMS

\* C27: every recorded pair has a location of 0 or more; createProgram
\* records no pair and allocates no slot for a reflected uniform without a
\* location, so that the pairs, the new names of the name table and the new
\* storage blocks all come from the uniforms that have one; and
\* getUniformLocation returns -1 for a uniform slot that no pair of the
\* program names
C27_NegativeLocationsIgnored ==
    /\ [](\A p \in DOMAIN prg_uniforms : \A k \in DOMAIN prg_uniforms[p] : prg_uniforms[p][k].loc >= 0)
    /\ [][ (dev_call'.fn = "createProgram" /\ dev_ret' # INVALID_PROGRAM)
           => LET rec == RecordedActive(dev_call'.build.active) IN
              /\ Len(prg_uniforms'[dev_ret']) = Len(rec)
              /\ DOMAIN uniforms_hash_map' \ DOMAIN uniforms_hash_map
                    \subseteq {crc32(rec[k].name) : k \in DOMAIN rec}
              /\ Len(heap') - Len(heap) <= Len(rec)
      ]_vars
    /\ [][ (/\ dev_call'.fn = "getUniformLocation"
            /\ \A k \in DOMAIN prg_uniforms[dev_call'.handle] :
                  prg_uniforms[dev_call'.handle][k].uniform # dev_call'.uniform)
           => dev_ret' = -1
      ]_vars

\* getUniformLocation returned -1 for a live uniform slot and a live program
\* that has no pair
C27_Witness ==
    /\ dev_call.fn = "getUniformLocation"
    /\ dev_ret = -1
    /\ dev_call.uniform \in UniformsAllocated
    /\ prg_uniforms[dev_call.handle] = <<>>

\* createProgram of a program whose one active uniform has no location
\* recorded no pair and took no uniform slot
C27_NoLocationNoSlot ==
    /\ dev_call.fn = "createProgram"
    /\ dev_ret # INVALID_PROGRAM
    /\ dev_call.build.active # <<>>
    /\ dev_call.build.active[1].loc < 0
    /\ prg_uniforms[dev_ret] = <<>>
    /\ UniformsAllocated = {}

\* C28: in every state, also after the uniform pool ran out of slots, each
\* pair recorded on a program names a live uniform slot and never
\* INVALID_UNIFORM
C28_PairsNameLiveSlots ==
    \A p \in DOMAIN prg_uniforms : \A k \in DOMAIN prg_uniforms[p] :
        /\ prg_uniforms[p][k].uniform # INVALID_UNIFORM
        /\ prg_uniforms[p][k].uniform \in UniformsAllocated

\* the uniform pool was full when createProgram reflected a uniform with a
\* location and a new name: the pair holds INVALID_UNIFORM
C28_InvalidUniformRecorded ==
    /\ dev_call.fn = "createProgram"
    /\ dev_ret # INVALID_PROGRAM
    /\ Pool_isFull(uniforms)
    /\ \E k \in DOMAIN prg_uniforms[dev_ret] :
          /\ prg_uniforms[dev_ret][k].uniform = INVALID_UNIFORM
          /\ prg_uniforms[dev_ret][k].loc >= 0

(***************************************************************************)
(* GUISceneImpl: the rects of the entities, the root, and render.          *)
(***************************************************************************)
\* entities of the universe
MaxEntities == 3

GuiEntities == 0 .. (MaxEntities - 1)

\* GUIRect::Flags
IS_VALID == 1

IS_ENABLED == 2

\* FlagSet::isSet
isSet(flags, flag) == (flags \div flag) % 2 = 1

\* FlagSet::set(flag, value)
setFlag(flags, flag, value) ==
    IF value
    THEN (IF isSet(flags, flag) THEN flags ELSE flags + flag)
    ELSE (IF isSet(flags, flag) THEN flags - flag ELSE flags)

\* LUMIX_NEW(m_allocator, GUIRect): no flag set, no image, no text
NewRect == [flags |-> 0, image |-> FALSE, text |-> FALSE]

\* the universes the scene is exercised in: no entity has a parent; every
\* entity but the first is a child of the one before; every entity but the
\* first is a child of the first
Hierarchies ==
    { [e \in GuiEntities |-> INVALID_ENTITY],
      [e \in GuiEntities |-> IF e = 0 THEN INVALID_ENTITY ELSE e - 1],
      [e \in GuiEntities |-> IF e = 0 THEN INVALID_ENTITY ELSE 0] }

\* Universe::getParent
getParent(h, e) == h[e]

\* the children of an entity, INVALID_ENTITY has none
Children(h, e) == IF e = INVALID_ENTITY THEN {} ELSE {c \in DOMAIN h : h[c] = e}

\* the least entity of a set, INVALID_ENTITY for the empty set
FirstOf(S) == IF S = {} THEN INVALID_ENTITY ELSE CHOOSE c \in S : \A d \in S : c <= d

\* Universe::getFirstChild
getFirstChild(h, e) == FirstOf(Children(h, e))

\* Universe::getNextSibling: the next child of the same parent; an entity
\* without a parent has no sibling
getNextSibling(h, e) == FirstOf({c \in Children(h, h[e]) : c > e})

\* AssociativeArray::insert of a rect for the entity
InsertRect(rects, e, rect) == (e :> rect) @@ rects

\* AssociativeArray::erase
EraseRect(rects, e) == [x \in DOMAIN rects \ {e} |-> rects[x]]

\* findRoot that takes the first rect of the table
findRoot_firstRect(rects, h) == FirstOf(DOMAIN rects)

\* findRoot: the first rect of the table, in key order, that is valid and
\* whose entity has no parent or a parent without a rect
findRoot(rects, h) ==
    FirstOf({e \in DOMAIN rects :
                /\ isSet(rects[e].flags, IS_VALID)
                /\ getParent(h, e) = INVALID_ENTITY \/ getParent(h, e) \notin DOMAIN rects})

\* renderRect without the tests of the flags
RECURSIVE renderRect_drawsAll(_, _, _)
renderRect_drawsAll(rects, h, e) ==
    LET child == getFirstChild(h, e)
        sibling == getNextSibling(h, e)
    IN  <<e>>
        \o (IF child # INVALID_ENTITY /\ child \in DOMAIN rects
            THEN renderRect_drawsAll(rects, h, child) ELSE <<>>)
        \o (IF sibling # INVALID_ENTITY /\ sibling \in DOMAIN rects
            THEN renderRect_drawsAll(rects, h, sibling) ELSE <<>>)

\* renderRect: the entities whose rects are drawn, in order
RECURSIVE renderRect(_, _, _)
renderRect(rects, h, e) ==
    IF ~isSet(rects[e].flags, IS_VALID) THEN <<>>
    ELSE IF ~isSet(rects[e].flags, IS_ENABLED) THEN <<>>
    ELSE LET child == getFirstChild(h, e)
             sibling == getNextSibling(h, e)
         IN  <<e>>
             \o (IF child # INVALID_ENTITY /\ child \in DOMAIN rects
                 THEN renderRect(rects, h, child) ELSE <<>>)
             \o (IF sibling # INVALID_ENTITY /\ sibling \in DOMAIN rects
                 THEN renderRect(rects, h, sibling) ELSE <<>>)

\* createRect: the table after the call
createRect(rects, entity) ==
    LET rect == IF entity \in DOMAIN rects THEN rects[entity] ELSE NewRect IN
    InsertRect(rects, entity,
               [rect EXCEPT !.flags = setFlag(setFlag(rect.flags, IS_VALID, TRUE), IS_ENABLED, TRUE)])

\* what deserialize reads: the rects of a scene that was serialized
GuiBlobs ==
    { <<>>,
      << [entity |-> 0, flags |-> IS_ENABLED, image |-> TRUE, text |-> FALSE],
         [entity |-> 1, flags |-> IS_VALID + IS_ENABLED, image |-> FALSE, text |-> TRUE] >> }

\* the flags deserializeRect reads
GuiFlags == { IS_ENABLED, IS_VALID + IS_ENABLED }

GuiFrame == UNCHANGED <<hierarchy, gui_focus, poolVars, threadVars, ddsVars, mtVars, devVars, fbVars>>

GuiInit ==
    /\ PoolIdle
    /\ ThreadIdle
    /\ DdsIdle
    /\ MtIdle
    /\ DevIdle
    /\ FbIdle
    /\ hierarchy \in Hierarchies
    /\ gui_focus \in {"components", "render"}
    /\ m_rects = <<>>
    /\ m_root = NullRect
    /\ root_deleted = FALSE
    /\ gui_call = "none"
    /\ gui_drawn = <<>>

\* assignment of findRoot() to m_root
SetRoot(rects) ==
    /\ m_root' = findRoot(rects, hierarchy)
    /\ root_deleted' = FALSE

GuiCreateRect ==
    /\ gui_focus \in {"components", "render"}
    /\ \E entity \in GuiEntities :
        /\ m_rects' = createRect(m_rects, entity)
        /\ SetRoot(m_rects')
    /\ gui_call' = "createRect"
    /\ gui_drawn' = <<>>
    /\ GuiFrame

\* createImage: createRect when the entity has no rect, then a new image
GuiCreateImage ==
    /\ gui_focus = "components"
    /\ \E entity \in GuiEntities :
        LET rects == IF entity \in DOMAIN m_rects THEN m_rects ELSE createRect(m_rects, entity) IN
        /\ m_rects' = [rects EXCEPT ![entity].image = TRUE]
        /\ IF entity \in DOMAIN m_rects
           THEN UNCHANGED <<m_root, root_deleted>>
           ELSE SetRoot(rects)
    /\ gui_call' = "createImage"
    /\ gui_drawn' = <<>>
    /\ GuiFrame

\* createText: createRect when the entity has no rect, then a new text
GuiCreateText ==
    /\ gui_focus = "components"
    /\ \E entity \in GuiEntities :
        LET rects == IF entity \in DOMAIN m_rects THEN m_rects ELSE createRect(m_rects, entity) IN
        /\ m_rects' = [rects EXCEPT ![entity].text = TRUE]
        /\ IF entity \in DOMAIN m_rects
           THEN UNCHANGED <<m_root, root_deleted>>
           ELSE SetRoot(rects)
    /\ gui_call' = "createText"
    /\ gui_drawn' = <<>>
    /\ GuiFrame

\* destroyRect of the rect component of an entity: the rect leaves the table
\* when it has neither image nor text, and the root is searched again when
\* it was this rect
GuiDestroyRect ==
    /\ gui_focus \in {"components", "render"}
    /\ \E entity \in DOMAIN m_rects :
        /\ isSet(m_rects[entity].flags, IS_VALID)
        /\ LET cleared == [m_rects EXCEPT ![entity].flags = setFlag(@, IS_VALID, FALSE)]
               rects == IF ~cleared[entity].image /\ ~cleared[entity].text
                        THEN EraseRect(cleared, entity)
                        ELSE cleared
           IN /\ m_rects' = rects
              /\ IF ~root_deleted /\ m_root = entity
                 THEN SetRoot(rects)
                 ELSE UNCHANGED <<m_root, root_deleted>>
    /\ gui_call' = "destroyRect"
    /\ gui_drawn' = <<>>
    /\ GuiFrame

GuiDestroyImage ==
    /\ gui_focus = "components"
    /\ \E entity \in DOMAIN m_rects :
        /\ m_rects[entity].image
        /\ m_rects' = [m_rects EXCEPT ![entity].image = FALSE]
    /\ gui_call' = "destroyImage"
    /\ gui_drawn' = <<>>
    /\ UNCHANGED <<m_root, root_deleted>>
    /\ GuiFrame

GuiDestroyText ==
    /\ gui_focus = "components"
    /\ \E entity \in DOMAIN m_rects :
        /\ m_rects[entity].text
        /\ m_rects' = [m_rects EXCEPT ![entity].text = FALSE]
    /\ gui_call' = "destroyText"
    /\ gui_drawn' = <<>>
    /\ UNCHANGED <<m_root, root_deleted>>
    /\ GuiFrame

\* clear: every rect is deleted and the table emptied; m_root is not written
GuiClear ==
    /\ gui_focus = "components"
    /\ m_rects' = <<>>
    /\ root_deleted' = (root_deleted \/ m_root # NullRect)
    /\ gui_call' = "clear"
    /\ gui_drawn' = <<>>
    /\ UNCHANGED m_root
    /\ GuiFrame

\* deserialize: clear, one new rect for each rect read, then findRoot
GuiDeserialize ==
    /\ gui_focus = "components"
    /\ \E blob \in GuiBlobs :
        /\ m_rects' = [e \in {blob[i].entity : i \in DOMAIN blob} |->
                         LET i == CHOOSE k \in DOMAIN blob : blob[k].entity = e IN
                         [flags |-> blob[i].flags, image |-> blob[i].image, text |-> blob[i].text]]
        /\ SetRoot(m_rects')
    /\ gui_call' = "deserialize"
    /\ gui_drawn' = <<>>
    /\ GuiFrame

\* deserializeRect: the rect of the entity, a new one when it has none, gets
\* the flags read, then findRoot
GuiDeserializeRect ==
    /\ gui_focus = "components"
    /\ \E entity \in GuiEntities, flags \in GuiFlags :
        LET rect == IF entity \in DOMAIN m_rects THEN m_rects[entity] ELSE NewRect IN
        /\ m_rects' = InsertRect(m_rects, entity, [rect EXCEPT !.flags = flags])
        /\ SetRoot(m_rects')
    /\ gui_call' = "deserializeRect"
    /\ gui_drawn' = <<>>
    /\ GuiFrame

GuiEnableRect ==
    /\ gui_focus = "render"
    /\ \E entity \in DOMAIN m_rects, enable \in BOOLEAN :
        m_rects' = [m_rects EXCEPT ![entity].flags = setFlag(@, IS_ENABLED, enable)]
    /\ gui_call' = "enableRect"
    /\ gui_drawn' = <<>>
    /\ UNCHANGED <<m_root, root_deleted>>
    /\ GuiFrame

\* render; through a root that was deleted it reads freed memory and draws
\* nothing or the rect of any entity
GuiRender ==
    /\ gui_focus \in {"components", "render"}
    /\ IF m_root = NullRect
       THEN gui_drawn' = <<>>
       ELSE IF root_deleted
       THEN gui_drawn' \in {<<>>} \cup {<<e>> : e \in GuiEntities}
       ELSE gui_drawn' = renderRect(m_rects, hierarchy, m_root)
    /\ gui_call' = "render"
    /\ UNCHANGED <<m_rects, m_root, root_deleted>>
    /\ GuiFrame

GuiNext ==
    \/ GuiCreateRect
    \/ GuiCreateImage
    \/ GuiCreateText
    \/ GuiDestroyRect
    \/ GuiDestroyImage
    \/ GuiDestroyText
    \/ GuiClear
    \/ GuiDeserialize
    \/ GuiDeserializeRect
    \/ GuiEnableRect
    \/ GuiRender

SpecGui == GuiInit /\ [][GuiNext]_vars

\* C29: after any sequence of createRect, createImage, createText,
\* destroyRect, destroyImage, destroyText, clear, deserialize and
\* deserializeRect, m_root is null or points to a GUIRect that is in the
\* table and has IS_VALID set
C29_RootNullOrValidRect ==
    \/ m_root = NullRect
    \/ /\ ~root_deleted
       /\ m_root \in DOMAIN m_rects
       /\ isSet(m_rects[m_root].flags, IS_VALID)

\* the same while clear has not been called on a scene with a root
C29_RootValidUntilClear ==
    ~root_deleted =>
        \/ m_root = NullRect
        \/ m_root \in DOMAIN m_rects /\ isSet(m_rects[m_root].flags, IS_VALID)

\* after clear the table is empty and m_root still points to a rect
C29_RootDangles ==
    /\ gui_call = "clear"
    /\ m_rects = <<>>
    /\ m_root # NullRect
    /\ root_deleted

\* the entities with a rect in the table that first-child and next-sibling
\* links reach from the root over entities with a rect in the table
C30_Reachable ==
    LET step(S) == S \cup { c \in DOMAIN m_rects :
                              \E e \in S : c = getFirstChild(hierarchy, e) \/ c = getNextSibling(hierarchy, e) }
        R[n \in 0 .. MaxEntities] == IF n = 0 THEN {m_root} ELSE step(R[n - 1])
    IN  R[MaxEntities]

\* the ancestors of an entity that the root's links reach
C30_Ancestors(e) ==
    LET up[n \in 0 .. MaxEntities] ==
            IF n = 0 THEN {getParent(hierarchy, e)} \ {INVALID_ENTITY}
            ELSE up[n - 1] \cup ({getParent(hierarchy, a) : a \in up[n - 1]} \ {INVALID_ENTITY})
    IN  up[MaxEntities] \cap C30_Reachable

\* the rect of the entity is in the table, valid and enabled
C30_Shown(e) ==
    /\ e \in DOMAIN m_rects
    /\ isSet(m_rects[e].flags, IS_VALID)
    /\ isSet(m_rects[e].flags, IS_ENABLED)

\* C30: a render call with a root draws a rect exactly when it is in the
\* table, reached from the root over first-child and next-sibling links,
\* valid and enabled, and every ancestor of it below the canvas is valid and
\* enabled; it draws each such rect once, whatever the flags of its siblings
C30_DrawsShownRects ==
    (gui_call = "render" /\ m_root # NullRect /\ ~root_deleted) =>
        /\ \A e \in GuiEntities :
              (\E k \in DOMAIN gui_drawn : gui_drawn[k] = e)
              <=> (/\ e \in C30_Reachable
                   /\ C30_Shown(e)
                   /\ \A a \in C30_Ancestors(e) : C30_Shown(a))
        /\ \A j, k \in DOMAIN gui_drawn : gui_drawn[j] = gui_drawn[k] => j = k

\* what is drawn is shown and has only shown ancestors, and nothing twice
C30_DrawnAreShown ==
    (gui_call = "render" /\ m_root # NullRect /\ ~root_deleted) =>
        /\ \A k \in DOMAIN gui_drawn :
              /\ gui_drawn[k] \in C30_Reachable
              /\ C30_Shown(gui_drawn[k])
              /\ \A a \in C30_Ancestors(gui_drawn[k]) : C30_Shown(a)
        /\ \A j, k \in DOMAIN gui_drawn : gui_drawn[j] = gui_drawn[k] => j = k

\* the first child of the root is disabled and its enabled sibling is not drawn
C30_SiblingHidden ==
    /\ gui_call = "render"
    /\ m_root # NullRect
    /\ ~root_deleted
    /\ \E a, b \in GuiEntities :
          /\ getFirstChild(hierarchy, m_root) = a
          /\ getNextSibling(hierarchy, a) = b
          /\ a \in DOMAIN m_rects /\ ~isSet(m_rects[a].flags, IS_ENABLED)
          /\ C30_Shown(b)
          /\ \A k \in DOMAIN gui_drawn : gui_drawn[k] # b

====
